---------------------------- MODULE Spec2Model ----------------------------
(***************************************************************************)
(* Model of the file-change aggregation engine of file_monitor.py:         *)
(* IntelligentFileHandler (classifier + debouncer) and FileMonitor         *)
(* (batcher, delivery executor, lifecycle).                                *)
(*                                                                         *)
(* Threads of the program and where they appear here:                      *)
(*   - the watchdog observer thread, which runs the handlers, one         *)
(*     notification at a time (hpc, h_event);                              *)
(*   - the cleanup (settlement) thread started by the handler's            *)
(*     constructor (cpc and the c_ variables);                             *)
(*   - the batch timer thread started by start_monitoring (tpc, t_sleep);  *)
(*   - the caller of start_monitoring / stop_monitoring /                  *)
(*     force_process_changes / add_change_callback (mpc);                  *)
(*   - the worker threads of the ThreadPoolExecutor (worker, queue).       *)
(*                                                                         *)
(* Time is an integer clock `now` (seconds).  Computation is instantaneous *)
(* with respect to that clock: the clock advances only while every thread  *)
(* is at a blocking point (a sleep, a join, waiting for work) or inside a  *)
(* subscriber callback, whose duration is arbitrary.  Threads still        *)
(* interleave statement by statement at one instant.  Blocks run under     *)
(* FileMonitor.lock are single actions; recent_events is accessed without  *)
(* any lock in the source and its accesses are separate steps.             *)
(* Notification paths are already normalised (the watch source joins the   *)
(* absolute watch directory with file names), so os.path.normpath leaves   *)
(* them as they are.                                                       *)
(***************************************************************************)
EXTENDS Integers, Sequences, FiniteSets, TLC

(* ------------------------------ bounds -------------------------------- *)
\* SpecShutdown: notifications, last instant of the clock, calls of
\* stop_monitoring and of force_process_changes, monitoring_interval
ShutdownEvents == 2
ShutdownTime == 6
ShutdownStops == 2
ShutdownForces == 1
ShutdownInterval == 6
\* SpecDebounce
DebounceEvents == 3
DebounceTime == 4
DebounceInterval == 4
\* SpecStopOnce
StopOnceEvents == 2
StopOnceTime == 6
StopOnceInterval == 6
\* SpecScenario; ScenarioArrival is the last instant a notification arrives
ScenarioEvents == 4
ScenarioTime == 4
ScenarioInterval == 4
ScenarioArrival == 1
\* SpecLifecycle
LifecycleEvents == 2
LifecycleTime == 4
LifecycleInterval == 4
LifecycleStarts == 2
\* SpecCount; CountArrival is the last instant a notification arrives
CountEvents == 11
CountTime == 6
CountInterval == 6
CountArrival == 1
\* SpecBatch
BatchEvents == 3
BatchTime == 8
BatchInterval == 8
\* number of subscribers registered before monitoring starts
Subscribers == 1
\* SpecFingerprint
FingerprintEvents == 2
FingerprintTime == 4
FingerprintInterval == 4
\* SpecCopies
CopiesEvents == 2
CopiesTime == 4
CopiesInterval == 4
\* SpecSettle
SettleEvents == 2
SettleTime == 12
SettleInterval == 6
SettleArrival == 2
\* SpecWindow
WindowEvents == 3
WindowTime == 8
WindowInterval == 8
\* SpecDirectory
DirectoryEvents == 2
DirectoryTime == 4
DirectoryInterval == 4
\* SpecClassifier
ClassifierEvents == 2
ClassifierTime == 4
ClassifierInterval == 4
\* SpecMove
MoveEvents == 3
MoveTime == 4
MoveInterval == 4
\* SpecSuppress
SuppressEvents == 3
SuppressTime == 4
SuppressInterval == 4
\* SpecManager
ManagerEvents == 2
ManagerTime == 4
ManagerInterval == 4
ManagerCommitFrequency == 3
ManagerCommitAttempts == 1
ManagerArrival == 1
\* SpecStats
StatsEvents == 2
StatsTime == 4
StatsInterval == 4
StatsCalls == 1
\* SpecFanout
FanoutSubscribers == 2
FanoutEvents == 2
FanoutTime == 4
FanoutInterval == 4

(* ------------------------- program constants -------------------------- *)
debounce_interval == 2
BatchSizeThreshold == 10
max_workers == 2

(* ------------------------------- state ------------------------------- *)
VARIABLES
  now,              \* the clock
  observer,         \* watchdog observer thread: "new", "alive", "stopping", "finished"
  hpc,              \* handler position: "idle", "read", "store"
  h_event,          \* on_modified's current_event
  recent_events,    \* IntelligentFileHandler.recent_events
  cpc,              \* cleanup thread: "sleep", "scan", "pop", "accept", "dead"
  c_sleep,          \* instant the cleanup thread's sleep began
  c_now,            \* cleanup_old_events' current_time
  c_iter,           \* position of the dict iterator
  c_used,           \* dict size the iterator was created with
  c_expired,        \* expired_files
  c_event,          \* the popped event handed to _process_file_change
  tpc,              \* timer thread: "none", "check", "sleep", "done", "dead"
  t_sleep,          \* instant the timer thread's sleep began
  mpc,              \* caller: "idle", "join", "flush", "shutdown", "wait"
  pending_changes,  \* FileMonitor.pending_changes
  change_callbacks, \* FileMonitor.change_callbacks
  last_batch_time,  \* FileMonitor.last_batch_time
  batch_interval,   \* FileMonitor.batch_interval
  stats,            \* FileMonitor.stats
  executor_shutdown,\* ThreadPoolExecutor._shutdown
  queue,            \* ThreadPoolExecutor work queue
  worker,           \* the executor's worker threads
  notes,            \* history: every notification handled, by id
  flushed,          \* history: changes_to_process of every flush, in flush order
  delivered,        \* history: per subscriber, the batches whose call has ended
  raised,           \* history: the <<subscriber, batch>> calls ended by an exception
  calls,            \* history: counts of caller operations
  stop_snap,        \* history: pending_changes when the current stop was invoked
  stop_result,      \* history: how the last stop_monitoring call ended
  start_result,     \* history: how the last start_monitoring call ended
  stats_result,     \* history: what the last get_stats call returned
  manager           \* AutoGitManager: pending_changes, last_commit_time, ...

vars == <<now, observer, hpc, h_event, recent_events, cpc, c_sleep, c_now,
          c_iter, c_used, c_expired, c_event, tpc, t_sleep, mpc,
          pending_changes, change_callbacks, last_batch_time,
          batch_interval, stats, executor_shutdown, queue, worker, notes, flushed, delivered,
          raised, calls, stop_snap, stop_result, start_result, stats_result,
          manager>>

handlerVars == <<hpc, h_event, recent_events, notes>>
cleanupVars == <<cpc, c_sleep, c_now, c_iter, c_used, c_expired, c_event>>
timerVars == <<tpc, t_sleep>>
batcherVars == <<pending_changes, last_batch_time, stats, queue, flushed>>
executorVars == <<executor_shutdown, worker, delivered, raised>>
callerVars == <<mpc, calls, stop_snap, stop_result, start_result, stats_result>>

(* ------------------------ strings as characters ----------------------- *)
\* the characters of each path and pattern the model uses
Chars(s) ==
  CASE s = "a.py"         -> <<"a", ".", "p", "y">>
    [] s = "b.py"         -> <<"b", ".", "p", "y">>
    [] s = "c.py"         -> <<"c", ".", "p", "y">>
    [] s = "d.py"         -> <<"d", ".", "p", "y">>
    [] s = "e.py"         -> <<"e", ".", "p", "y">>
    [] s = "f.py"         -> <<"f", ".", "p", "y">>
    [] s = "g.py"         -> <<"g", ".", "p", "y">>
    [] s = "h.py"         -> <<"h", ".", "p", "y">>
    [] s = "i.py"         -> <<"i", ".", "p", "y">>
    [] s = "j.py"         -> <<"j", ".", "p", "y">>
    [] s = "k.py"         -> <<"k", ".", "p", "y">>
    [] s = "n.log"        -> <<"n", ".", "l", "o", "g">>
    [] s = ".git/a.py"    -> <<".", "g", "i", "t", "/", "a", ".", "p", "y">>
    [] s = ".github/a.py" ->
         <<".", "g", "i", "t", "h", "u", "b", "/", "a", ".", "p", "y">>
    [] s = ".git"         -> <<".", "g", "i", "t">>
    [] s = "__pycache__"  -> <<"_", "_", "p", "y", "c", "a", "c", "h", "e", "_", "_">>
    [] s = "node_modules" -> <<"n", "o", "d", "e", "_", "m", "o", "d", "u", "l", "e", "s">>
    [] s = ".py"          -> <<".", "p", "y">>
    [] s = ".js"          -> <<".", "j", "s">>
    [] s = ".ts"          -> <<".", "t", "s">>
    [] s = ".html"        -> <<".", "h", "t", "m", "l">>
    [] s = ".css"         -> <<".", "c", "s", "s">>
    [] s = ".md"          -> <<".", "m", "d">>
    [] s = "*.log"        -> <<"*", ".", "l", "o", "g">>
    [] s = "*.tmp"        -> <<"*", ".", "t", "m", "p">>
    [] s = "*.temp"       -> <<"*", ".", "t", "e", "m", "p">>
    [] s = "*.swp"        -> <<"*", ".", "s", "w", "p">>
    [] s = "*.swo"        -> <<"*", ".", "s", "w", "o">>
    [] s = "*~"           -> <<"*", "~">>
    [] s = ".DS_Store"    -> <<".", "D", "S", "_", "S", "t", "o", "r", "e">>

\* FileMonitor._get_default_config
exclude_directories == {".git", "__pycache__", "node_modules"}
file_extensions == {".py", ".js", ".ts", ".html", ".css", ".md"}
ignore_patterns == {"*.log", "*.tmp", ".DS_Store"}
temp_patterns == {"*.tmp", "*.temp", "*.swp", "*.swo", "*~", ".DS_Store"}

\* `sub in s` on Python strings
Contains(s, sub) ==
  \E i \in 1..(Len(s) - Len(sub) + 1) : SubSeq(s, i, i + Len(sub) - 1) = sub

LastIndexOf(s, c) ==
  LET hits == {i \in 1..Len(s) : s[i] = c}
  IN IF hits = {} THEN 0 ELSE CHOOSE i \in hits : \A j \in hits : j <= i

\* os.path.basename
Basename(s) == SubSeq(s, LastIndexOf(s, "/") + 1, Len(s))

\* pathlib.Path(s).suffix
Suffix(s) ==
  LET name == Basename(s)
      i == LastIndexOf(name, ".")
  IN IF i > 1 /\ i < Len(name) THEN SubSeq(name, i, Len(name)) ELSE <<>>

\* fnmatch.fnmatch for patterns made of literal characters and "*"
RECURSIVE Fnmatch(_, _)
Fnmatch(s, pat) ==
  IF pat = <<>> THEN s = <<>>
  ELSE IF Head(pat) = "*"
       THEN Fnmatch(s, Tail(pat)) \/ (s # <<>> /\ Fnmatch(Tail(s), pat))
       ELSE s # <<>> /\ Head(s) = Head(pat) /\ Fnmatch(Tail(s), Tail(pat))

\* IntelligentFileHandler.should_ignore_file
\* variant: a path that has a pending record is ignored as well
ShouldIgnoreOncePending(p) ==
  LET file_path == Chars(p)
      file_name == Basename(file_path)
  IN \/ \E d \in exclude_directories : Contains(file_path, Chars(d))
     \/ /\ file_extensions # {}
        /\ Suffix(file_path) \notin {Chars(x) : x \in file_extensions}
     \/ \E g \in ignore_patterns :
          Fnmatch(file_name, Chars(g)) \/ Fnmatch(file_path, Chars(g))
     \/ \E g \in temp_patterns : Fnmatch(file_name, Chars(g))
     \/ \E i \in DOMAIN recent_events : recent_events[i].file_path = p

\* IntelligentFileHandler.should_ignore_file
should_ignore_file(p) ==
  LET file_path == Chars(p)
      file_name == Basename(file_path)
  IN \/ \E d \in exclude_directories : Contains(file_path, Chars(d))
     \/ /\ file_extensions # {}
        /\ Suffix(file_path) \notin {Chars(x) : x \in file_extensions}
     \/ \E g \in ignore_patterns :
          Fnmatch(file_name, Chars(g)) \/ Fnmatch(file_path, Chars(g))
     \/ \E g \in temp_patterns : Fnmatch(file_name, Chars(g))

(* ----------------------------- data model ----------------------------- *)
\* what _get_file_size and _get_file_hash observe of a file: size 0 and
\* fingerprint "" when it is absent, its length and content hash otherwise
FileStates == {[size |-> 0, hash |-> ""], [size |-> 1, hash |-> "h1"]}

(* What the file system answers while a record is constructed: whether    *)
(* the path exists when its size is taken, whether it exists and is a     *)
(* regular file when its hash is taken, and whether open() is permitted.  *)
ReadableFile ==
  [exists_for_size |-> TRUE, size |-> 1, exists_for_hash |-> TRUE,
   isfile |-> TRUE, readable |-> TRUE, md5 |-> "h1"]
DeletedFile ==
  [exists_for_size |-> FALSE, size |-> 0, exists_for_hash |-> FALSE,
   isfile |-> FALSE, readable |-> FALSE, md5 |-> ""]
\* permission denied: stat succeeds, open raises PermissionError
DeniedFile ==
  [exists_for_size |-> TRUE, size |-> 1, exists_for_hash |-> TRUE,
   isfile |-> TRUE, readable |-> FALSE, md5 |-> "h1"]
\* removed by another process between the two reads
VanishingFile ==
  [exists_for_size |-> TRUE, size |-> 1, exists_for_hash |-> FALSE,
   isfile |-> FALSE, readable |-> FALSE, md5 |-> "h1"]
FileConditions == {ReadableFile, DeletedFile, DeniedFile, VanishingFile}

\* FileChangeEvent._get_file_size
get_file_size(c) == IF c.exists_for_size THEN c.size ELSE 0

\* FileChangeEvent._get_file_hash: "" when the path is missing or no
\* regular file, and when open or read raises OSError
get_file_hash(c) ==
  IF ~c.exists_for_hash \/ ~c.isfile THEN ""
  ELSE IF ~c.readable THEN ""
  ELSE c.md5

\* the size and hash a record gets under file-system condition c
Fingerprint(c) == [size |-> get_file_size(c), hash |-> get_file_hash(c)]

\* FileChangeEvent.__init__ ; id stands for the identity of the Python object
FileChangeEvent(id, file_path, event_type, timestamp, size, hash) ==
  [id |-> id, file_path |-> file_path, event_type |-> event_type,
   timestamp |-> timestamp, file_size |-> size, file_hash |-> hash]

NoEvent == FileChangeEvent(0, "", "", 0, 0, "")

(* A dict is a sequence of events with distinct file_path, in insertion   *)
(* order, as Python dicts keep it.                                        *)
Keys(d) == {d[i].file_path : i \in DOMAIN d}
Lookup(d, p) == d[CHOOSE i \in DOMAIN d : d[i].file_path = p]
\* d[p] = e : replaces in place, or appends a new key
Put(d, e) ==
  IF e.file_path \in Keys(d)
  THEN [i \in DOMAIN d |-> IF d[i].file_path = e.file_path THEN e ELSE d[i]]
  ELSE Append(d, e)
\* d.pop(p)
Pop(d, p) ==
  LET i == CHOOSE k \in DOMAIN d : d[k].file_path = p
  IN SubSeq(d, 1, i - 1) \o SubSeq(d, i + 1, Len(d))


Workers == 1..max_workers
MaxSubscribers ==
  IF Subscribers > FanoutSubscribers THEN Subscribers ELSE FanoutSubscribers
NoStats == [status |-> "none"]
IdleWorker == [batch |-> 0, items |-> <<>>, cb |-> 0, calling |-> FALSE]

\* AutoGitManager.__init__, which owns the FileMonitor: no path is pending,
\* the last commit is dated at construction
AutoGitManagerInit ==
  [pending_changes |-> {}, last_commit_time |-> 0,
   max_commit_frequency |-> ManagerCommitFrequency,
   pc |-> "running", commits |-> <<>>]

\* FileMonitor.__init__ and IntelligentFileHandler.__init__, under a
\* configuration whose system.monitoring_interval is `interval`
FileMonitorInit(interval) ==
  /\ now = 0
  /\ batch_interval = interval
  /\ observer = "new"
  /\ hpc = "idle"
  /\ h_event = NoEvent
  /\ recent_events = <<>>
  /\ cpc = "sleep"
  /\ c_sleep = 0
  /\ c_now = 0
  /\ c_iter = 0
  /\ c_used = 0
  /\ c_expired = <<>>
  /\ c_event = NoEvent
  /\ tpc = "none"
  /\ t_sleep = 0
  /\ mpc = "idle"
  /\ pending_changes = <<>>
  /\ change_callbacks = <<>>
  /\ last_batch_time = 0
  /\ stats = [total_events |-> 0, ignored_events |-> 0, processed_batches |-> 0]
  /\ executor_shutdown = FALSE
  /\ queue = <<>>
  /\ worker = [w \in Workers |-> IdleWorker]
  /\ notes = <<>>
  /\ flushed = <<>>
  /\ delivered = [s \in 1..MaxSubscribers |-> <<>>]
  /\ raised = {}
  /\ calls = [stop |-> 0, force |-> 0, start |-> 0, stats |-> 0]
  /\ stop_snap = <<>>
  /\ stop_result = "none"
  /\ start_result = "none"
  /\ stats_result = NoStats
  /\ manager = AutoGitManagerInit

(* ------------------------------ batcher ------------------------------- *)
\* variant: a worker holds self.lock while it calls a subscriber
WorkersCallingHoldLock == {w \in Workers : worker[w].calling}

\* the workers that hold self.lock between two steps: none, since every
\* `with self.lock` block is one step and _process_change_batch, which the
\* workers run, never takes the lock
LockHolders == {}

\* executor.submit raises RuntimeError once the executor is shut down
SubmitRaises(buf) == buf # <<>> /\ executor_shutdown

\* variant: the buffer is flushed without the test for an empty buffer
TriggerWithoutEmptyTest(buf, total) ==
  /\ pending_changes' = <<>>
  /\ last_batch_time' = now
  /\ stats' = [stats EXCEPT !.total_events = total,
                            !.processed_batches = @ + 1]
  /\ flushed' = Append(flushed, [changes |-> buf,
                                 submitted |-> ~executor_shutdown])
  /\ queue' = IF executor_shutdown
              THEN queue
              ELSE Append(queue, [batch |-> Len(flushed) + 1, changes |-> buf])

\* variant: a flush hands the buffer over without clearing it
TriggerKeepsBuffer(buf, total) ==
  IF buf = <<>>
  THEN /\ pending_changes' = buf
       /\ stats' = [stats EXCEPT !.total_events = total]
       /\ UNCHANGED <<last_batch_time, queue, flushed>>
  ELSE /\ pending_changes' = buf
       /\ last_batch_time' = now
       /\ stats' = [stats EXCEPT !.total_events = total,
                                 !.processed_batches = @ + 1]
       /\ flushed' = Append(flushed, [changes |-> buf,
                                      submitted |-> ~executor_shutdown])
       /\ queue' = IF executor_shutdown
                   THEN queue
                   ELSE Append(queue, [batch |-> Len(flushed) + 1,
                                       changes |-> buf])

\* variant: a flush starts the count of events afresh
TriggerResetsTotals(buf, total) ==
  IF buf = <<>>
  THEN /\ pending_changes' = buf
       /\ stats' = [stats EXCEPT !.total_events = total]
       /\ UNCHANGED <<last_batch_time, queue, flushed>>
  ELSE /\ pending_changes' = <<>>
       /\ last_batch_time' = now
       /\ stats' = [stats EXCEPT !.total_events = 0,
                                 !.processed_batches = @ + 1]
       /\ flushed' = Append(flushed, [changes |-> buf,
                                      submitted |-> ~executor_shutdown])
       /\ queue' = IF executor_shutdown
                   THEN queue
                   ELSE Append(queue, [batch |-> Len(flushed) + 1,
                                       changes |-> buf])

\* FileMonitor._trigger_batch_processing, run on buffer buf with total
\* accepted events counted so far
TriggerBatchProcessing(buf, total) ==
  IF buf = <<>>
  THEN /\ pending_changes' = buf
       /\ stats' = [stats EXCEPT !.total_events = total]
       /\ UNCHANGED <<last_batch_time, queue, flushed>>
  ELSE /\ pending_changes' = <<>>
       /\ last_batch_time' = now
       /\ stats' = [stats EXCEPT !.total_events = total,
                                 !.processed_batches = @ + 1]
       /\ flushed' = Append(flushed, [changes |-> buf,
                                      submitted |-> ~executor_shutdown])
       /\ queue' = IF executor_shutdown
                   THEN queue
                   ELSE Append(queue, [batch |-> Len(flushed) + 1,
                                       changes |-> buf])

\* variant: only the elapsed time is tested
ShouldTriggerOnTime(buf) == now - last_batch_time >= batch_interval

\* the flush condition of _process_file_change
ShouldTrigger(buf) ==
  \/ now - last_batch_time >= batch_interval
  \/ Len(buf) >= BatchSizeThreshold

\* FileMonitor._process_file_change (the block under self.lock)
ProcessFileChange(event) ==
  LET buf == Append(pending_changes, event)
  IN IF ShouldTrigger(buf)
     THEN TriggerBatchProcessing(buf, stats.total_events + 1)
     ELSE /\ pending_changes' = buf
          /\ stats' = [stats EXCEPT !.total_events = @ + 1]
          /\ UNCHANGED <<last_batch_time, queue, flushed>>

ProcessFileChangeRaises(event) ==
  LET buf == Append(pending_changes, event)
  IN ShouldTrigger(buf) /\ SubmitRaises(buf)

\* variant: the event that occurs first for a path is kept
RECURSIVE UniqueChangesFirst(_)
UniqueChangesFirst(changes) ==
  IF changes = <<>> THEN <<>>
  ELSE LET rest == UniqueChangesFirst(SubSeq(changes, 1, Len(changes) - 1))
           last == changes[Len(changes)]
       IN IF last.file_path \in Keys(rest) THEN rest ELSE Append(rest, last)

\* unique_changes of _process_change_batch: one entry per path, placed where
\* the path first occurs, holding the event that occurs last
RECURSIVE UniqueChanges(_)
UniqueChanges(changes) ==
  IF changes = <<>> THEN <<>>
  ELSE Put(UniqueChanges(SubSeq(changes, 1, Len(changes) - 1)),
           changes[Len(changes)])

\* insertion of e after the events that are not later than it (stable)
RECURSIVE InsertByTimestamp(_, _)
InsertByTimestamp(sorted, e) ==
  IF sorted = <<>> THEN <<e>>
  ELSE IF sorted[Len(sorted)].timestamp <= e.timestamp
       THEN Append(sorted, e)
       ELSE Append(InsertByTimestamp(SubSeq(sorted, 1, Len(sorted) - 1), e),
                   sorted[Len(sorted)])

\* variant: the list is left in the order of unique_changes
Unsorted(xs) == xs

\* final_changes.sort(key=lambda x: x.timestamp)
RECURSIVE SortByTimestamp(_)
SortByTimestamp(xs) ==
  IF xs = <<>> THEN <<>>
  ELSE InsertByTimestamp(SortByTimestamp(SubSeq(xs, 1, Len(xs) - 1)),
                         xs[Len(xs)])

\* final_changes of _process_change_batch
FinalChanges(changes) == SortByTimestamp(UniqueChanges(changes))

(* --------------------------- watch source ----------------------------- *)
NextId == Len(notes) + 1
PendingId(p) ==
  IF p \in Keys(recent_events) THEN Lookup(recent_events, p).id ELSE 0
Note(e, fate) ==
  [e |-> e, prev |-> PendingId(e.file_path), fate |-> fate,
   path |-> e.file_path]
SetFate(n, fate) == [notes EXCEPT ![n].fate = fate]

\* the observer thread takes the next notification from its queue
Dispatching == observer = "alive" /\ hpc = "idle"

\* variant: a directory notification is stored like one of a file
DroppedStoresDirectory(p, is_dir) ==
  /\ is_dir \/ should_ignore_file(p)
  /\ notes' = Append(notes, [e |-> NoEvent, prev |-> 0,
                            fate |-> IF is_dir THEN "directory" ELSE "ignored",
                            path |-> p])
  /\ recent_events' =
       IF is_dir
       THEN Put(recent_events, FileChangeEvent(NextId, p, "created", now, 0, ""))
       ELSE recent_events
  /\ UNCHANGED <<hpc, h_event>>

\* the early returns shared by the handlers: directory events, ignored paths
Dropped(p, is_dir) ==
  /\ is_dir \/ should_ignore_file(p)
  /\ notes' = Append(notes, [e |-> NoEvent, prev |-> 0,
                            fate |-> IF is_dir THEN "directory" ELSE "ignored",
                            path |-> p])
  /\ UNCHANGED <<hpc, h_event, recent_events>>

\* variant: a notification whose hash equals the hash of the pending
\* record of its path is dropped, whatever its kind
ReplaceUnlessSameHash(kind, p, f) ==
  LET e == FileChangeEvent(NextId, p, kind, now, f.size, f.hash)
  IN IF p \in Keys(recent_events)
          /\ Lookup(recent_events, p).file_hash = f.hash
     THEN /\ notes' = Append(notes, Note(e, "suppressed"))
          /\ UNCHANGED <<hpc, h_event, recent_events>>
     ELSE /\ recent_events' = Put(recent_events, e)
          /\ notes' = Append(notes, Note(e, "stored"))
          /\ UNCHANGED <<hpc, h_event>>

\* self.recent_events[file_path] = FileChangeEvent(file_path, kind)
Replace(kind, p, f) ==
  LET e == FileChangeEvent(NextId, p, kind, now, f.size, f.hash)
  IN /\ recent_events' = Put(recent_events, e)
     /\ notes' = Append(notes, Note(e, "stored"))
     /\ UNCHANGED <<hpc, h_event>>

\* IntelligentFileHandler.on_created
on_created(p, is_dir, f) ==
  /\ Dispatching
  /\ \/ Dropped(p, is_dir)
     \/ ~(is_dir \/ should_ignore_file(p)) /\ Replace("created", p, f)
  /\ UNCHANGED <<now, observer, cleanupVars, timerVars, batcherVars,
                 executorVars, callerVars, change_callbacks, batch_interval, manager>>

\* IntelligentFileHandler.on_deleted
on_deleted(p, is_dir, f) ==
  /\ Dispatching
  /\ \/ Dropped(p, is_dir)
     \/ ~(is_dir \/ should_ignore_file(p)) /\ Replace("deleted", p, f)
  /\ UNCHANGED <<now, observer, cleanupVars, timerVars, batcherVars,
                 executorVars, callerVars, change_callbacks, batch_interval, manager>>

\* variant: the records pending for other paths, the source among them, are
\* removed when the destination is recorded
OnMovedForgetsSource(p, is_dir, f) ==
  /\ Dispatching
  /\ \/ Dropped(p, is_dir)
     \/ /\ ~(is_dir \/ should_ignore_file(p))
        /\ LET e == FileChangeEvent(NextId, p, "moved", now, f.size, f.hash)
               kept == SelectSeq(recent_events, LAMBDA r : r.file_path = p)
           IN /\ recent_events' = Put(kept, e)
              /\ notes' = Append(notes, Note(e, "stored"))
              /\ UNCHANGED <<hpc, h_event>>
  /\ UNCHANGED <<now, observer, cleanupVars, timerVars, batcherVars,
                 executorVars, callerVars, change_callbacks, batch_interval, manager>>

\* IntelligentFileHandler.on_moved ; p is event.dest_path, the only attribute
\* of the notification the handler reads besides is_directory
on_moved(p, is_dir, f) ==
  /\ Dispatching
  /\ \/ Dropped(p, is_dir)
     \/ ~(is_dir \/ should_ignore_file(p)) /\ Replace("moved", p, f)
  /\ UNCHANGED <<now, observer, cleanupVars, timerVars, batcherVars,
                 executorVars, callerVars, change_callbacks, batch_interval, manager>>

\* variant: a modification of a path without a pending record is compared
\* with the records of the path that have settled already
OnModifiedRemembersSettled(p, is_dir, f) ==
  /\ Dispatching
  /\ \/ Dropped(p, is_dir)
     \/ /\ ~(is_dir \/ should_ignore_file(p))
        /\ p \notin Keys(recent_events)
        /\ LET e == FileChangeEvent(NextId, p, "modified", now, f.size, f.hash)
               settled == {pending_changes[i] : i \in DOMAIN pending_changes}
                            \cup UNION {{flushed[b].changes[i] :
                                           i \in DOMAIN flushed[b].changes} :
                                         b \in DOMAIN flushed}
           IN IF \E r \in settled : r.file_path = p /\ r.file_hash = f.hash
              THEN /\ notes' = Append(notes, Note(e, "suppressed"))
                   /\ UNCHANGED <<recent_events, hpc, h_event>>
              ELSE Replace("modified", p, f)
     \/ /\ ~(is_dir \/ should_ignore_file(p))
        /\ p \in Keys(recent_events)
        /\ LET e == FileChangeEvent(NextId, p, "modified", now, f.size, f.hash)
           IN /\ h_event' = e
              /\ hpc' = "read"
              /\ notes' = Append(notes, Note(e, "inflight"))
              /\ UNCHANGED recent_events
  /\ UNCHANGED <<now, observer, cleanupVars, timerVars, batcherVars,
                 executorVars, callerVars, change_callbacks, batch_interval, manager>>

\* IntelligentFileHandler.on_modified up to `if file_path in self.recent_events`
on_modified(p, is_dir, f) ==
  /\ Dispatching
  /\ \/ Dropped(p, is_dir)
     \/ /\ ~(is_dir \/ should_ignore_file(p))
        /\ p \notin Keys(recent_events)
        /\ Replace("modified", p, f)
     \/ /\ ~(is_dir \/ should_ignore_file(p))
        /\ p \in Keys(recent_events)
        /\ LET e == FileChangeEvent(NextId, p, "modified", now, f.size, f.hash)
           IN /\ h_event' = e
              /\ hpc' = "read"
              /\ notes' = Append(notes, Note(e, "inflight"))
              /\ UNCHANGED recent_events
  /\ UNCHANGED <<now, observer, cleanupVars, timerVars, batcherVars,
                 executorVars, callerVars, change_callbacks, batch_interval, manager>>

\* previous_event = self.recent_events[file_path] raises KeyError when the
\* entry has been popped since the membership test; the exception ends the
\* observer thread
OnModifiedKeyError ==
  /\ hpc = "read"
  /\ h_event.file_path \notin Keys(recent_events)
  /\ hpc' = "idle"
  /\ h_event' = NoEvent
  /\ observer' = "finished"
  /\ notes' = SetFate(h_event.id, "keyerror")
  /\ UNCHANGED <<now, recent_events, cleanupVars, timerVars, batcherVars,
                 executorVars, callerVars, change_callbacks, batch_interval, manager>>

\* variant: no modification is taken for a no-op
IsNoOpNever(current_event, previous_event) == FALSE

\* current_event.file_hash == previous_event.file_hash
IsNoOp(current_event, previous_event) ==
  current_event.file_hash = previous_event.file_hash

\* variant: a modification taken for a no-op restarts the settle window of
\* the pending record
OnModifiedReadResetsTimer ==
  /\ hpc = "read"
  /\ h_event.file_path \in Keys(recent_events)
  /\ LET previous_event == Lookup(recent_events, h_event.file_path)
     IN IF IsNoOp(h_event, previous_event)
        THEN /\ hpc' = "idle"
             /\ h_event' = NoEvent
             /\ notes' = SetFate(h_event.id, "suppressed")
             /\ recent_events' =
                  Put(recent_events,
                      [previous_event EXCEPT !.timestamp = h_event.timestamp])
        ELSE /\ hpc' = "store"
             /\ UNCHANGED <<h_event, notes, recent_events>>
  /\ UNCHANGED <<now, observer, cleanupVars, timerVars,
                 batcherVars, executorVars, callerVars, change_callbacks, batch_interval, manager>>

\* the read of previous_event and the comparison of the two hashes
OnModifiedRead ==
  /\ hpc = "read"
  /\ h_event.file_path \in Keys(recent_events)
  /\ LET previous_event == Lookup(recent_events, h_event.file_path)
     IN IF IsNoOp(h_event, previous_event)
        THEN /\ hpc' = "idle"
             /\ h_event' = NoEvent
             /\ notes' = SetFate(h_event.id, "suppressed")
        ELSE /\ hpc' = "store"
             /\ UNCHANGED <<h_event, notes>>
  /\ UNCHANGED <<now, observer, recent_events, cleanupVars, timerVars,
                 batcherVars, executorVars, callerVars, change_callbacks, batch_interval, manager>>

\* self.recent_events[file_path] = current_event
OnModifiedStore ==
  /\ hpc = "store"
  /\ recent_events' = Put(recent_events, h_event)
  /\ notes' = [notes EXCEPT ![h_event.id] = Note(h_event, "stored")]
  /\ hpc' = "idle"
  /\ h_event' = NoEvent
  /\ UNCHANGED <<now, observer, cleanupVars, timerVars, batcherVars,
                 executorVars, callerVars, change_callbacks, batch_interval, manager>>

\* the observer thread leaves its loop once stop() has been requested
ObserverExit ==
  /\ observer = "stopping"
  /\ hpc = "idle"
  /\ observer' = "finished"
  /\ UNCHANGED <<now, handlerVars, cleanupVars, timerVars, batcherVars,
                 executorVars, callerVars, change_callbacks, batch_interval, manager>>

(* -------------------------- settlement thread ------------------------- *)
\* time.sleep(self.debounce_interval) ends; current_time = datetime.now();
\* the for loop creates its iterator over recent_events.items()
CleanupWake ==
  /\ cpc = "sleep"
  /\ now - c_sleep >= debounce_interval
  /\ cpc' = "scan"
  /\ c_now' = now
  /\ c_iter' = 0
  /\ c_used' = Len(recent_events)
  /\ c_expired' = <<>>
  /\ UNCHANGED <<now, observer, handlerVars, c_sleep, c_event, timerVars,
                 batcherVars, executorVars, callerVars, change_callbacks, batch_interval, manager>>

\* whether an event has expired at current_time
Expired(event, current_time) ==
  current_time - event.timestamp > debounce_interval

\* one step of the dict iterator: RuntimeError (dictionary changed size
\* during iteration) ends the thread; otherwise the next item is examined,
\* or the loop ends
CleanupScan ==
  /\ cpc = "scan"
  /\ IF Len(recent_events) # c_used
     THEN /\ cpc' = "dead"
          /\ c_iter' = 0
          /\ c_used' = 0
          /\ c_now' = 0
          /\ c_expired' = <<>>
          /\ UNCHANGED c_sleep
     ELSE IF c_iter < Len(recent_events)
     THEN /\ c_iter' = c_iter + 1
          /\ c_expired' = IF Expired(recent_events[c_iter + 1], c_now)
                          THEN Append(c_expired,
                                      recent_events[c_iter + 1].file_path)
                          ELSE c_expired
          /\ UNCHANGED <<cpc, c_sleep, c_now, c_used>>
     ELSE /\ cpc' = IF c_expired = <<>> THEN "sleep" ELSE "pop"
          /\ c_sleep' = now
          /\ c_iter' = 0
          /\ c_used' = 0
          /\ c_now' = 0
          /\ UNCHANGED c_expired
  /\ UNCHANGED <<now, observer, handlerVars, c_event, timerVars,
                 batcherVars, executorVars, callerVars, change_callbacks, batch_interval, manager>>

\* event = self.recent_events.pop(file_path)
CleanupPop ==
  /\ cpc = "pop"
  /\ c_event' = Lookup(recent_events, Head(c_expired))
  /\ recent_events' = Pop(recent_events, Head(c_expired))
  /\ c_expired' = Tail(c_expired)
  /\ cpc' = "accept"
  /\ UNCHANGED <<now, observer, hpc, h_event, notes, c_sleep, c_now, c_iter,
                 c_used, timerVars, batcherVars, executorVars, callerVars,
                 change_callbacks, batch_interval, manager>>

\* self.monitor._process_file_change(event); an exception from submit ends
\* the thread
CleanupAccept ==
  /\ cpc = "accept"
  /\ LockHolders = {}
  /\ ProcessFileChange(c_event)
  /\ cpc' = IF ProcessFileChangeRaises(c_event) THEN "dead"
            ELSE IF c_expired = <<>> THEN "sleep" ELSE "pop"
  /\ c_expired' = IF ProcessFileChangeRaises(c_event) THEN <<>> ELSE c_expired
  /\ c_sleep' = now
  /\ c_event' = NoEvent
  /\ UNCHANGED <<now, observer, handlerVars, c_now, c_iter, c_used,
                 timerVars, executorVars, callerVars, change_callbacks, batch_interval, manager>>

(* ---------------------------- timer thread ---------------------------- *)
ObserverIsAlive == observer \in {"alive", "stopping"}

\* while self.observer.is_alive():
TimerCheck ==
  /\ tpc = "check"
  /\ tpc' = IF ObserverIsAlive THEN "sleep" ELSE "done"
  /\ t_sleep' = IF ObserverIsAlive THEN now ELSE 0
  /\ UNCHANGED <<now, observer, handlerVars, cleanupVars, batcherVars,
                 executorVars, callerVars, change_callbacks, batch_interval, manager>>

\* variant: the timer wakes and goes back to sleep without a flush
TimerNeverFlushes ==
  /\ tpc = "sleep"
  /\ now - t_sleep >= batch_interval
  /\ tpc' = "check"
  /\ t_sleep' = 0
  /\ UNCHANGED <<now, observer, handlerVars, cleanupVars, batcherVars,
                 executorVars, callerVars, change_callbacks, batch_interval, manager>>

\* time.sleep(self.batch_interval) ends; the flush under self.lock
TimerFlush ==
  /\ tpc = "sleep"
  /\ now - t_sleep >= batch_interval
  /\ LockHolders = {}
  /\ TriggerBatchProcessing(pending_changes, stats.total_events)
  /\ tpc' = IF SubmitRaises(pending_changes) THEN "dead" ELSE "check"
  /\ t_sleep' = 0
  /\ UNCHANGED <<now, observer, handlerVars, cleanupVars,
                 executorVars, callerVars, change_callbacks, batch_interval, manager>>

(* ------------------------------- caller ------------------------------- *)
\* FileMonitor.add_change_callback
AddChangeCallback ==
  /\ mpc = "idle"
  /\ change_callbacks' = Append(change_callbacks, Len(change_callbacks) + 1)
  /\ UNCHANGED <<now, observer, handlerVars, cleanupVars, timerVars,
                 batcherVars, executorVars, callerVars, batch_interval, manager>>

\* FileMonitor.start_monitoring on an observer that has not been started;
\* an observer whose stop() was already requested leaves its loop at once
StartMonitoring ==
  /\ mpc = "idle"
  /\ observer \in {"new", "new_stopped"}
  /\ observer' = IF observer = "new" THEN "alive" ELSE "stopping"
  /\ tpc' = "check"
  /\ calls' = [calls EXCEPT !.start = @ + 1]
  /\ start_result' = "returned"
  /\ UNCHANGED <<now, handlerVars, cleanupVars, t_sleep, batcherVars,
                 executorVars, mpc, stop_snap, stop_result, stats_result, change_callbacks,
                 batch_interval, manager>>

\* FileMonitor.start_monitoring on an observer that was started before:
\* self.observer.start() raises RuntimeError (threads can only be started
\* once) and _start_batch_timer is not reached
StartMonitoringRaises ==
  /\ mpc = "idle"
  /\ observer \in {"alive", "stopping", "finished"}
  /\ calls' = [calls EXCEPT !.start = @ + 1]
  /\ start_result' = "raised"
  /\ UNCHANGED <<now, observer, handlerVars, cleanupVars, timerVars,
                 batcherVars, executorVars, mpc, stop_snap, stop_result, stats_result,
                 change_callbacks, batch_interval, manager>>

\* stop_monitoring: self.observer.stop()
StopBegin ==
  /\ mpc = "idle"
  /\ calls' = [calls EXCEPT !.stop = @ + 1]
  /\ observer' = CASE observer = "new" -> "new_stopped"
                   [] observer = "alive" -> "stopping"
                   [] OTHER -> observer
  /\ stop_snap' = pending_changes
  /\ stop_result' = "running"
  /\ mpc' = "join"
  /\ UNCHANGED <<now, handlerVars, cleanupVars, timerVars, batcherVars,
                 executorVars, start_result, stats_result, change_callbacks, batch_interval, manager>>

\* stop_monitoring: self.observer.join() returns once the thread has ended
StopJoin ==
  /\ mpc = "join"
  /\ observer = "finished"
  /\ mpc' = "flush"
  /\ UNCHANGED <<now, observer, handlerVars, cleanupVars, timerVars,
                 batcherVars, executorVars, calls, stop_snap, start_result, stats_result, stop_result,
                 change_callbacks, batch_interval, manager>>

\* stop_monitoring: join() of a thread that was never started raises
StopJoinRaises ==
  /\ mpc = "join"
  /\ observer = "new_stopped"
  /\ mpc' = "idle"
  /\ stop_result' = "raised"
  /\ UNCHANGED <<now, observer, handlerVars, cleanupVars, timerVars,
                 batcherVars, executorVars, calls, stop_snap, start_result, stats_result,
                 change_callbacks, batch_interval, manager>>

\* stop_monitoring: the flush of the remaining changes under self.lock
StopFlush ==
  /\ mpc = "flush"
  /\ LockHolders = {}
  /\ TriggerBatchProcessing(pending_changes, stats.total_events)
  /\ IF SubmitRaises(pending_changes)
     THEN mpc' = "idle" /\ stop_result' = "raised"
     ELSE mpc' = "shutdown" /\ UNCHANGED stop_result
  /\ UNCHANGED <<now, observer, handlerVars, cleanupVars, timerVars,
                 executorVars, calls, stop_snap, start_result, stats_result, change_callbacks, batch_interval, manager>>

\* stop_monitoring: self.executor.shutdown(wait=True) closes the executor
StopShutdown ==
  /\ mpc = "shutdown"
  /\ executor_shutdown' = TRUE
  /\ mpc' = "wait"
  /\ UNCHANGED <<now, observer, handlerVars, cleanupVars, timerVars,
                 batcherVars, worker, delivered, raised, calls, stop_snap,
                 start_result, stats_result,
                 stop_result, change_callbacks, batch_interval, manager>>

WorkersIdle == \A w \in Workers : worker[w].batch = 0

\* stop_monitoring: shutdown(wait=True) returns when the queue is drained
\* and the workers have ended
StopReturn ==
  /\ mpc = "wait"
  /\ queue = <<>>
  /\ WorkersIdle
  /\ mpc' = "idle"
  /\ stop_result' = "returned"
  /\ UNCHANGED <<now, observer, handlerVars, cleanupVars, timerVars,
                 batcherVars, executorVars, calls, stop_snap, start_result, stats_result,
                 change_callbacks, batch_interval, manager>>

\* variant: the manual trigger flushes only when a threshold is reached
ForceWhenDue ==
  /\ mpc = "idle"
  /\ calls' = [calls EXCEPT !.force = @ + 1]
  /\ LockHolders = {}
  /\ IF ShouldTrigger(pending_changes)
     THEN TriggerBatchProcessing(pending_changes, stats.total_events)
     ELSE UNCHANGED batcherVars
  /\ UNCHANGED <<now, observer, handlerVars, cleanupVars, timerVars,
                 executorVars, mpc, stop_snap, start_result, stats_result, stop_result, change_callbacks, batch_interval, manager>>

\* FileMonitor.force_process_changes
ForceProcessChanges ==
  /\ mpc = "idle"
  /\ calls' = [calls EXCEPT !.force = @ + 1]
  /\ LockHolders = {}
  /\ TriggerBatchProcessing(pending_changes, stats.total_events)
  /\ UNCHANGED <<now, observer, handlerVars, cleanupVars, timerVars,
                 executorVars, mpc, stop_snap, start_result, stats_result, stop_result, change_callbacks, batch_interval, manager>>

\* str(n) for one decimal digit
Digit(n) ==
  CASE n = 0 -> "0" [] n = 1 -> "1" [] n = 2 -> "2" [] n = 3 -> "3"
    [] n = 4 -> "4" [] n = 5 -> "5" [] n = 6 -> "6" [] n = 7 -> "7"
    [] n = 8 -> "8" [] n = 9 -> "9"
TwoDigits(n) == Digit(n \div 10) \o Digit(n % 10)

\* str(timedelta(seconds=int(uptime))) for an uptime below ten hours
UptimeFormatted(uptime) ==
  Digit(uptime \div 3600) \o ":" \o TwoDigits((uptime % 3600) \div 60)
    \o ":" \o TwoDigits(uptime % 60)

\* the dict FileMonitor.get_stats returns; stats["start_time"] is the
\* instant 0 of construction
get_stats ==
  [status |-> "returned",
   total_events |-> stats.total_events,
   ignored_events |-> stats.ignored_events,
   processed_batches |-> stats.processed_batches,
   start_time |-> 0,
   uptime_seconds |-> now - 0,
   uptime_formatted |-> UptimeFormatted(now - 0),
   pending_changes |-> Len(pending_changes),
   active_callbacks |-> Len(change_callbacks)]

\* FileMonitor.get_stats, called from any thread: it takes no lock and
\* assigns nothing
GetStats ==
  /\ calls' = [calls EXCEPT !.stats = @ + 1]
  /\ stats_result' = get_stats
  /\ UNCHANGED <<now, observer, handlerVars, cleanupVars, timerVars,
                 batcherVars, executorVars, mpc, stop_snap, stop_result,
                 start_result, change_callbacks, batch_interval, manager>>

(* ------------------------------ executor ------------------------------ *)
\* a worker takes the oldest submitted batch and runs _process_change_batch
\* up to the loop over the callbacks
WorkerTake(w) ==
  /\ worker[w].batch = 0
  /\ queue # <<>>
  /\ queue' = Tail(queue)
  /\ worker' = [worker EXCEPT ![w] =
       IF change_callbacks = <<>>
       THEN IdleWorker
       ELSE [batch |-> Head(queue).batch,
             items |-> FinalChanges(Head(queue).changes),
             cb |-> 1, calling |-> FALSE]]
  /\ UNCHANGED <<now, observer, handlerVars, cleanupVars, timerVars,
                 pending_changes, last_batch_time, stats, flushed,
                 executor_shutdown, delivered, raised, callerVars,
                 change_callbacks, batch_interval, manager>>

\* callback(final_changes) is entered
WorkerCall(w) ==
  /\ worker[w].batch # 0
  /\ ~worker[w].calling
  /\ worker' = [worker EXCEPT ![w].calling = TRUE]
  /\ UNCHANGED <<now, observer, handlerVars, cleanupVars, timerVars,
                 batcherVars, executor_shutdown, delivered, raised, callerVars,
                 change_callbacks, batch_interval, manager>>

\* the callback returns; the loop moves to the next callback or ends
WorkerCallEnd(w) ==
  /\ worker[w].calling
  /\ delivered' = [delivered EXCEPT ![change_callbacks[worker[w].cb]] =
                     Append(@, worker[w].batch)]
  /\ worker' = [worker EXCEPT ![w] =
       IF worker[w].cb < Len(change_callbacks)
       THEN [@ EXCEPT !.cb = @ + 1, !.calling = FALSE]
       ELSE IdleWorker]
  /\ UNCHANGED <<now, observer, handlerVars, cleanupVars, timerVars,
                 batcherVars, executor_shutdown, raised, callerVars,
                 change_callbacks, batch_interval, manager>>

\* variant: an exception of a callback ends the loop over the callbacks
AfterRaiseAborts(w) == IdleWorker

\* except Exception as e: print(...) inside the for loop: the loop moves to
\* the next callback or ends
AfterRaise(w) ==
  IF worker[w].cb < Len(change_callbacks)
  THEN [worker[w] EXCEPT !.cb = @ + 1, !.calling = FALSE]
  ELSE IdleWorker

\* the callback raises an Exception, which is caught and printed
WorkerCallRaises(w) ==
  /\ worker[w].calling
  /\ delivered' = [delivered EXCEPT ![change_callbacks[worker[w].cb]] =
                     Append(@, worker[w].batch)]
  /\ raised' = raised \cup {<<change_callbacks[worker[w].cb], worker[w].batch>>}
  /\ worker' = [worker EXCEPT ![w] = AfterRaise(w)]
  /\ UNCHANGED <<now, observer, handlerVars, cleanupVars, timerVars,
                 batcherVars, executor_shutdown, callerVars,
                 change_callbacks, batch_interval, manager>>

\* the subscriber being called removes the first item of the list it was
\* given (del changes[0]); the list is the one object final_changes that the
\* loop passes to every callback
WorkerCallMutates(w) ==
  /\ worker[w].calling
  /\ worker[w].items # <<>>
  /\ worker' = [worker EXCEPT ![w].items = Tail(@)]
  /\ UNCHANGED <<now, observer, handlerVars, cleanupVars, timerVars,
                 batcherVars, executor_shutdown, delivered, raised, callerVars,
                 change_callbacks, batch_interval, manager>>

(* --------------------------- AutoGitManager --------------------------- *)
\* git_repo.commit returns a successful result, returns a failed one, or an
\* exception is raised while the message is generated or the commit is made
CommitOutcomes == {"success", "failed", "raised"}

\* `len(self.pending_changes) >= 5` of _on_file_changes
CommitCountThreshold == 5

\* variant: the paths of deleted records are tracked as well
ChangedPathsWithDeleted(changes) ==
  {changes[i].file_path : i \in DOMAIN changes}

\* the paths _on_file_changes adds: those of the records that are not deleted
ChangedPaths(changes) ==
  {changes[i].file_path :
     i \in {k \in DOMAIN changes : changes[k].event_type # "deleted"}}

\* AutoGitManager._auto_commit on manager state m
auto_commit(m, caller, outcome) ==
  IF m.pending_changes = {} THEN m
  ELSE IF outcome = "success"
       THEN [m EXCEPT !.last_commit_time = now,
                      !.pending_changes = {},
                      !.commits = Append(@, [by |-> caller, ok |-> outcome = "success"])]
       ELSE [m EXCEPT !.commits = Append(@, [by |-> caller, ok |-> outcome = "success"])]

\* _on_file_changes is entered by worker w and adds the paths of the batch
OnFileChangesAdd(w) ==
  /\ worker[w].batch # 0
  /\ ~worker[w].calling
  /\ worker' = [worker EXCEPT ![w].calling = TRUE]
  /\ manager' = [manager EXCEPT
                   !.pending_changes = @ \cup ChangedPaths(worker[w].items)]
  /\ UNCHANGED <<now, observer, handlerVars, cleanupVars, timerVars,
                 batcherVars, executor_shutdown, delivered, raised, callerVars,
                 change_callbacks, batch_interval>>

\* _on_file_changes decides whether to commit, commits, and returns
OnFileChangesCommit(w) ==
  /\ worker[w].calling
  /\ delivered' = [delivered EXCEPT ![change_callbacks[worker[w].cb]] =
                     Append(@, worker[w].batch)]
  /\ worker' = [worker EXCEPT ![w] =
       IF worker[w].cb < Len(change_callbacks)
       THEN [@ EXCEPT !.cb = @ + 1, !.calling = FALSE]
       ELSE IdleWorker]
  /\ IF \/ Cardinality(manager.pending_changes) >= CommitCountThreshold
        \/ now - manager.last_commit_time >= manager.max_commit_frequency
     THEN \E o \in CommitOutcomes :
            manager' = auto_commit(manager, "on_file_changes", o)
     ELSE UNCHANGED manager
  /\ UNCHANGED <<now, observer, handlerVars, cleanupVars, timerVars,
                 batcherVars, executor_shutdown, raised, callerVars,
                 change_callbacks, batch_interval>>

\* _periodic_commit_check on the scheduler thread, the repository dirty
PeriodicCommitCheck ==
  /\ now - manager.last_commit_time >= manager.max_commit_frequency
  /\ \E o \in CommitOutcomes : manager' = auto_commit(manager, "periodic", o)
  /\ UNCHANGED <<now, observer, handlerVars, cleanupVars, timerVars,
                 batcherVars, executorVars, callerVars, change_callbacks,
                 batch_interval>>

\* AutoGitManager.manual_commit
manual_commit ==
  /\ \E o \in CommitOutcomes :
       manager' =
         IF o = "success"
         THEN [manager EXCEPT
                 !.last_commit_time = now,
                 !.pending_changes = {},
                 !.commits = Append(@, [by |-> "manual", ok |-> o = "success"])]
         ELSE [manager EXCEPT
                 !.commits = Append(@, [by |-> "manual", ok |-> o = "success"])]
  /\ UNCHANGED <<now, observer, handlerVars, cleanupVars, timerVars,
                 batcherVars, executorVars, callerVars, change_callbacks,
                 batch_interval>>

\* AutoGitManager.stop up to the call of file_monitor.stop_monitoring
ManagerStopCommit ==
  /\ manager.pc = "running"
  /\ \E o \in CommitOutcomes :
       manager' = [auto_commit(manager, "stop", o) EXCEPT !.pc = "stopping"]
  /\ UNCHANGED <<now, observer, handlerVars, cleanupVars, timerVars,
                 batcherVars, executorVars, callerVars, change_callbacks,
                 batch_interval>>

\* AutoGitManager.stop: self.file_monitor.stop_monitoring()
ManagerStopMonitoring ==
  /\ manager.pc = "stopping"
  /\ calls.stop = 0
  /\ StopBegin

(* ------------------------------- clock -------------------------------- *)
\* every thread is at a blocking point or inside a subscriber callback
Quiet ==
  /\ hpc = "idle"
  /\ cpc \in {"sleep", "dead"}
  /\ cpc = "sleep" => now - c_sleep < debounce_interval
  /\ tpc \in {"none", "sleep", "done", "dead"}
  /\ tpc = "sleep" => now - t_sleep < batch_interval
  /\ mpc \in {"idle", "join", "wait"}
  /\ \A w \in Workers : worker[w].batch = 0 \/ worker[w].calling

Tick ==
  /\ Quiet
  /\ now' = now + 1
  /\ UNCHANGED <<observer, handlerVars, cleanupVars, timerVars, batcherVars,
                 executorVars, callerVars, change_callbacks, batch_interval, manager>>

(* ---------------------------- environments ---------------------------- *)
(* An environment bounds what the watch source and the caller do: which   *)
(* notifications arrive and how many, how often stop_monitoring and       *)
(* force_process_changes are called, how far the clock runs.  The         *)
(* subscribers are registered before monitoring starts, and monitoring is *)
(* started in the instant of construction, from which the clock counts.   *)
Present == [size |-> 1, hash |-> "h1"]
Absent == [size |-> 0, hash |-> ""]

Created(E) ==
  /\ Len(notes) < E.events
  /\ \E p \in E.created, is_dir \in E.dirs, f \in E.files : on_created(p, is_dir, f)
Modified(E) ==
  /\ Len(notes) < E.events
  /\ \E p \in E.modified, is_dir \in E.dirs, f \in E.files : on_modified(p, is_dir, f)
Deleted(E) ==
  /\ Len(notes) < E.events
  /\ \E p \in E.deleted, is_dir \in E.dirs, f \in E.files : on_deleted(p, is_dir, f)
Moved(E) ==
  /\ Len(notes) < E.events
  /\ \E p \in E.moved, is_dir \in E.dirs, f \in E.files : on_moved(p, is_dir, f)
\* the observer thread hands one more notification to on_created between
\* observer.stop() and the end of the thread that join() waits for
LateCreated(E) ==
  /\ Len(notes) < E.events
  /\ observer = "stopping"
  /\ hpc = "idle"
  /\ \E p \in E.created, is_dir \in E.dirs, f \in E.files :
       \/ Dropped(p, is_dir)
       \/ ~(is_dir \/ should_ignore_file(p)) /\ Replace("created", p, f)
  /\ UNCHANGED <<now, observer, cleanupVars, timerVars, batcherVars,
                 executorVars, callerVars, change_callbacks, batch_interval, manager>>
Register == observer = "new" /\ Len(change_callbacks) < Subscribers /\ AddChangeCallback
Start == Len(change_callbacks) = Subscribers /\ StartMonitoring
StartAgain(E) == calls.start < E.starts /\ StartMonitoringRaises
Stop(E) == calls.stop < E.stops /\ StopBegin
Force(E) == calls.force < E.forces /\ ForceProcessChanges
Stats(E) == calls.stats < E.stats /\ GetStats
Clock(E) == now < E.time /\ observer # "new" /\ Tick

\* the steps the program takes by itself once a handler or a call has begun
HandlerSteps == OnModifiedKeyError \/ OnModifiedRead \/ OnModifiedStore
CleanupThread == CleanupWake \/ CleanupScan \/ CleanupPop \/ CleanupAccept
TimerThread == TimerCheck \/ TimerFlush
StopSteps ==
  ObserverExit \/ StopJoin \/ StopJoinRaises \/ StopFlush \/ StopShutdown
  \/ StopReturn
Executor == \E w \in Workers : WorkerTake(w) \/ WorkerCall(w) \/ WorkerCallEnd(w)

(* SpecShutdown: files are created under two paths, the caller forces a    *)
(* flush and stops the monitor, twice.                                     *)
EnvShutdown ==
  [events |-> ShutdownEvents, created |-> {"a.py", "b.py"}, dirs |-> {FALSE},
   files |-> {Present}, stops |-> ShutdownStops, forces |-> ShutdownForces,
   time |-> ShutdownTime]

InitShutdown == FileMonitorInit(ShutdownInterval)

NextShutdown ==
  \/ Created(EnvShutdown)
  \/ CleanupThread
  \/ TimerThread
  \/ Register
  \/ Start
  \/ Stop(EnvShutdown)
  \/ StopSteps
  \/ Force(EnvShutdown)
  \/ Executor
  \/ Clock(EnvShutdown)

SpecShutdown == InitShutdown /\ [][NextShutdown]_vars

(* SpecDebounce: every kind of notification for one tracked file, whose    *)
(* content is found present or absent; the monitor is not stopped.         *)
EnvDebounce ==
  [events |-> DebounceEvents, created |-> {"a.py"}, modified |-> {"a.py"},
   deleted |-> {"a.py"}, moved |-> {"a.py"}, dirs |-> {FALSE},
   files |-> FileStates, time |-> DebounceTime]

InitDebounce == FileMonitorInit(DebounceInterval)

NextDebounce ==
  \/ Created(EnvDebounce)
  \/ Modified(EnvDebounce)
  \/ Deleted(EnvDebounce)
  \/ Moved(EnvDebounce)
  \/ HandlerSteps
  \/ CleanupThread
  \/ TimerThread
  \/ Register
  \/ Start
  \/ Executor
  \/ Clock(EnvDebounce)

SpecDebounce == InitDebounce /\ [][NextDebounce]_vars

(* SpecStopOnce: files are created under two paths and the caller stops    *)
(* the monitor once; nothing else is called.                               *)
EnvStopOnce ==
  [events |-> StopOnceEvents, created |-> {"a.py", "b.py"}, dirs |-> {FALSE},
   files |-> {Present}, stops |-> 1, time |-> StopOnceTime]

InitStopOnce == FileMonitorInit(StopOnceInterval)

NextStopOnce ==
  \/ Created(EnvStopOnce)
  \/ CleanupThread
  \/ TimerThread
  \/ Register
  \/ Start
  \/ Stop(EnvStopOnce)
  \/ StopSteps
  \/ Executor
  \/ Clock(EnvStopOnce)

SpecStopOnce == InitStopOnce /\ [][NextStopOnce]_vars

(* SpecScenario: modifications of two files and the creation of a third,   *)
(* all within the settle window that opens with the monitor.  No record   *)
(* expires while notifications still arrive, so on_modified always finds   *)
(* the entry it has tested for.                                            *)
EnvScenario ==
  [events |-> ScenarioEvents, created |-> {"b.py"}, modified |-> {"a.py", "c.py"},
   dirs |-> {FALSE}, files |-> FileStates, time |-> ScenarioTime]

InitScenario == FileMonitorInit(ScenarioInterval)

NextScenario ==
  \/ now <= ScenarioArrival /\ Created(EnvScenario)
  \/ now <= ScenarioArrival /\ Modified(EnvScenario)
  \/ OnModifiedRead
  \/ OnModifiedStore
  \/ CleanupThread
  \/ TimerThread
  \/ Register
  \/ Start
  \/ Executor
  \/ Clock(EnvScenario)

SpecScenario == InitScenario /\ [][NextScenario]_vars

(* SpecBatch: files are created, and created again, under two paths while  *)
(* one batch accumulates.                                                  *)
EnvBatch ==
  [events |-> BatchEvents, created |-> {"a.py", "b.py"}, dirs |-> {FALSE},
   files |-> {Present}, time |-> BatchTime]

InitBatch == FileMonitorInit(BatchInterval)

NextBatch ==
  \/ Created(EnvBatch)
  \/ CleanupThread
  \/ TimerThread
  \/ Register
  \/ Start
  \/ Executor
  \/ Clock(EnvBatch)

SpecBatch == InitBatch /\ [][NextBatch]_vars

(* SpecCount: eleven files are created one after the other within the      *)
(* first settle window, one more than the count threshold.                 *)
CountPaths ==
  <<"a.py", "b.py", "c.py", "d.py", "e.py", "f.py", "g.py", "h.py", "i.py",
    "j.py", "k.py", "a.py">>

CreatedInOrder ==
  /\ Len(notes) < CountEvents
  /\ now <= CountArrival
  /\ on_created(CountPaths[Len(notes) + 1], FALSE, Present)

EnvCount == [time |-> CountTime]

InitCount == FileMonitorInit(CountInterval)

NextCount ==
  \/ CreatedInOrder
  \/ CleanupThread
  \/ TimerThread
  \/ Register
  \/ Start
  \/ Executor
  \/ Clock(EnvCount)

SpecCount == InitCount /\ [][NextCount]_vars

(* SpecLifecycle: one file is created and modified; the caller starts the  *)
(* monitor again and stops it once.                                        *)
\* two subscribers, each of whose calls returns or raises
EnvFanout ==
  [events |-> FanoutEvents, created |-> {"a.py", "b.py"}, dirs |-> {FALSE},
   files |-> {Present}, stops |-> 1, forces |-> 1, time |-> FanoutTime]

InitFanout == FileMonitorInit(FanoutInterval)

RegisterFanout ==
  /\ observer = "new"
  /\ Len(change_callbacks) < FanoutSubscribers
  /\ AddChangeCallback
StartFanout == Len(change_callbacks) = FanoutSubscribers /\ StartMonitoring
CallbackRaises == \E w \in Workers : WorkerCallRaises(w)

NextFanout ==
  \/ Created(EnvFanout)
  \/ CleanupThread
  \/ TimerThread
  \/ RegisterFanout
  \/ StartFanout
  \/ Stop(EnvFanout)
  \/ StopSteps
  \/ Force(EnvFanout)
  \/ Executor
  \/ CallbackRaises
  \/ Clock(EnvFanout)

SpecFanout == InitFanout /\ [][NextFanout]_vars

\* created files, one of them ignored by policy, with calls of get_stats at
\* any moment
EnvStats ==
  [events |-> StatsEvents, created |-> {"a.py", "b.py", "n.log"},
   dirs |-> {FALSE},
   files |-> {Present}, stops |-> 1, forces |-> 1, stats |-> StatsCalls,
   time |-> StatsTime]

InitStats == FileMonitorInit(StatsInterval)

NextStats ==
  \/ Created(EnvStats)
  \/ CleanupThread
  \/ TimerThread
  \/ Register
  \/ Start
  \/ Stop(EnvStats)
  \/ StopSteps
  \/ Force(EnvStats)
  \/ Stats(EnvStats)
  \/ Executor
  \/ Clock(EnvStats)

SpecStats == InitStats /\ [][NextStats]_vars

\* files that are readable, deleted, unreadable, or vanish while the record
\* is constructed
EnvFingerprint ==
  [events |-> FingerprintEvents, created |-> {"a.py", "b.py"},
   dirs |-> {FALSE}, files |-> {Fingerprint(c) : c \in FileConditions},
   forces |-> 1, time |-> FingerprintTime]

InitFingerprint == FileMonitorInit(FingerprintInterval)

NextFingerprint ==
  \/ Created(EnvFingerprint)
  \/ CleanupThread
  \/ TimerThread
  \/ Register
  \/ Start
  \/ Force(EnvFingerprint)
  \/ Executor
  \/ Clock(EnvFingerprint)

SpecFingerprint == InitFingerprint /\ [][NextFingerprint]_vars

\* two subscribers that may alter the list they are called with
EnvCopies ==
  [events |-> CopiesEvents, created |-> {"a.py", "b.py"}, dirs |-> {FALSE},
   files |-> {Present}, forces |-> 1, time |-> CopiesTime]

InitCopies == FileMonitorInit(CopiesInterval)

SubscriberMutates == \E w \in Workers : WorkerCallMutates(w)

NextCopies ==
  \/ Created(EnvCopies)
  \/ CleanupThread
  \/ TimerThread
  \/ RegisterFanout
  \/ StartFanout
  \/ Force(EnvCopies)
  \/ Executor
  \/ SubscriberMutates
  \/ Clock(EnvCopies)

SpecCopies == InitCopies /\ [][NextCopies]_vars

\* notifications of two paths that stop arriving after SettleArrival, with
\* every thread scheduled fairly and the clock running on to SettleTime
EnvSettle ==
  [events |-> SettleEvents, created |-> {"a.py", "b.py"}, dirs |-> {FALSE},
   files |-> {Present}, time |-> SettleTime]

InitSettle == FileMonitorInit(SettleInterval)

CreatedSettle == now <= SettleArrival /\ Created(EnvSettle)

NextSettle ==
  \/ CreatedSettle
  \/ CleanupThread
  \/ TimerThread
  \/ Register
  \/ Start
  \/ Executor
  \/ Clock(EnvSettle)

\* the threads are daemon threads of one process and the callbacks return
FairSettle ==
  /\ WF_vars(CleanupThread)
  /\ WF_vars(TimerThread)
  /\ WF_vars(Register)
  /\ WF_vars(Start)
  /\ WF_vars(Executor)
  /\ WF_vars(Clock(EnvSettle))

SpecSettle == InitSettle /\ [][NextSettle]_vars /\ FairSettle

\* repeated notifications of one path over four settle windows
EnvWindow ==
  [events |-> WindowEvents, created |-> {"a.py"}, deleted |-> {"a.py"},
   dirs |-> {FALSE}, files |-> {Present}, time |-> WindowTime]

InitWindow == FileMonitorInit(WindowInterval)

NextWindow ==
  \/ Created(EnvWindow)
  \/ Deleted(EnvWindow)
  \/ CleanupThread
  \/ TimerThread
  \/ Register
  \/ Start
  \/ Executor
  \/ Clock(EnvWindow)

SpecWindow == InitWindow /\ [][NextWindow]_vars

\* notifications of every kind for files and directories, whether or not
\* the path still exists
EnvDirectory ==
  [events |-> DirectoryEvents, created |-> {"a.py"}, modified |-> {"a.py"},
   deleted |-> {"a.py"}, moved |-> {"a.py"}, dirs |-> BOOLEAN,
   files |-> FileStates, time |-> DirectoryTime]

InitDirectory == FileMonitorInit(DirectoryInterval)

NextDirectory ==
  \/ Created(EnvDirectory)
  \/ Modified(EnvDirectory)
  \/ Deleted(EnvDirectory)
  \/ Moved(EnvDirectory)
  \/ HandlerSteps
  \/ CleanupThread
  \/ TimerThread
  \/ Register
  \/ Start
  \/ Executor
  \/ Clock(EnvDirectory)

SpecDirectory == InitDirectory /\ [][NextDirectory]_vars

\* created files inside and outside an excluded directory, and inside a
\* directory whose name only begins with an excluded name
EnvClassifier ==
  [events |-> ClassifierEvents,
   created |-> {"a.py", "n.log", ".git/a.py", ".github/a.py"},
   dirs |-> {FALSE}, files |-> {Present}, time |-> ClassifierTime]

InitClassifier == FileMonitorInit(ClassifierInterval)

NextClassifier ==
  \/ Created(EnvClassifier)
  \/ CleanupThread
  \/ TimerThread
  \/ Register
  \/ Start
  \/ Executor
  \/ Clock(EnvClassifier)

SpecClassifier == InitClassifier /\ [][NextClassifier]_vars

\* files are created under two paths and moved onto the second of them or
\* onto a path the filter rejects
EnvMove ==
  [events |-> MoveEvents, created |-> {"a.py", "b.py"},
   moved |-> {"b.py", "n.log"}, dirs |-> {FALSE},
   files |-> {Present}, time |-> MoveTime]

InitMove == FileMonitorInit(MoveInterval)

NextMove ==
  \/ Created(EnvMove)
  \/ Moved(EnvMove)
  \/ CleanupThread
  \/ TimerThread
  \/ Register
  \/ Start
  \/ Executor
  \/ Clock(EnvMove)

SpecMove == InitMove /\ [][NextMove]_vars

\* one file is modified again and again, its content found present or absent
EnvSuppress ==
  [events |-> SuppressEvents, modified |-> {"a.py"}, dirs |-> {FALSE},
   files |-> FileStates, time |-> SuppressTime]

InitSuppress == FileMonitorInit(SuppressInterval)

NextSuppress ==
  \/ Modified(EnvSuppress)
  \/ HandlerSteps
  \/ CleanupThread
  \/ TimerThread
  \/ Register
  \/ Start
  \/ Executor
  \/ Clock(EnvSuppress)

SpecSuppress == InitSuppress /\ [][NextSuppress]_vars

\* the monitor owned by an AutoGitManager: files are created and deleted,
\* commits succeed, fail or raise, and the manager is stopped once
EnvManager ==
  [events |-> ManagerEvents, created |-> {"a.py", "b.py"},
   deleted |-> {"a.py"}, dirs |-> {FALSE}, files |-> {Present},
   time |-> ManagerTime]

InitManager == FileMonitorInit(ManagerInterval)

\* _setup_monitoring registers _on_file_changes, the only subscriber
ManagerRegister ==
  observer = "new" /\ change_callbacks = <<>> /\ AddChangeCallback
\* AutoGitManager.start
ManagerStart == change_callbacks # <<>> /\ StartMonitoring
\* AutoGitManager.stop, called once the manager was started
ManagerStop ==
  \/ observer # "new" /\ ManagerStopCommit
  \/ ManagerStopMonitoring
ManagerStopSteps ==
  ObserverExit \/ StopJoin \/ StopFlush \/ StopShutdown \/ StopReturn
ManagerCommits ==
  /\ observer # "new"
  /\ Len(manager.commits) < ManagerCommitAttempts
  /\ PeriodicCommitCheck \/ manual_commit
ManagerExecutor ==
  \E w \in Workers : WorkerTake(w) \/ OnFileChangesAdd(w) \/ OnFileChangesCommit(w)

NextManager ==
  \/ now <= ManagerArrival /\ Created(EnvManager)
  \/ now <= ManagerArrival /\ Deleted(EnvManager)
  \/ CleanupThread
  \/ TimerThread
  \/ ManagerRegister
  \/ ManagerStart
  \/ ManagerStop
  \/ ManagerStopSteps
  \/ ManagerCommits
  \/ ManagerExecutor
  \/ Clock(EnvManager)

SpecManager == InitManager /\ [][NextManager]_vars

EnvLifecycle ==
  [events |-> LifecycleEvents, created |-> {"a.py"}, modified |-> {"a.py"},
   dirs |-> {FALSE}, files |-> FileStates, starts |-> LifecycleStarts,
   stops |-> 1, stats |-> 1, time |-> LifecycleTime]

InitLifecycle == FileMonitorInit(LifecycleInterval)

NextLifecycle ==
  \/ Created(EnvLifecycle)
  \/ Modified(EnvLifecycle)
  \/ LateCreated(EnvLifecycle)
  \/ HandlerSteps
  \/ CleanupThread
  \/ TimerThread
  \/ Register
  \/ Start
  \/ StartAgain(EnvLifecycle)
  \/ Stop(EnvLifecycle)
  \/ Stats(EnvLifecycle)
  \/ StopSteps
  \/ Executor
  \/ Clock(EnvLifecycle)

SpecLifecycle == InitLifecycle /\ [][NextLifecycle]_vars

(* ------------------------------- claims ------------------------------- *)
Range(f) == {f[i] : i \in DOMAIN f}
Ids(events) == {events[i].id : i \in DOMAIN events}
Batches == DOMAIN flushed
SubmittedBatches == {b \in Batches : flushed[b].submitted}
\* the call of every registered subscriber with batch b has ended
DeliveredToAll(b) ==
  \A i \in DOMAIN change_callbacks : b \in Range(delivered[change_callbacks[i]])
StopEnded == stop_result \in {"returned", "raised"}

(* C1: whenever stop_monitoring is invoked while pending_changes is        *)
(* non-empty, exactly one batch holding every buffered record is delivered *)
(* to all subscribers, and that delivery has ended when the call ends.     *)
C1_NoLossOnShutdown ==
  (StopEnded /\ stop_snap # <<>>) =>
    Cardinality({b \in SubmittedBatches :
                   /\ Ids(stop_snap) \subseteq Ids(flushed[b].changes)
                   /\ DeliveredToAll(b)}) = 1

(* C2: no record is lost to a shutdown race: a record stored in            *)
(* recent_events stays on its way to the subscribers (pending, being       *)
(* settled, buffered, or part of a submitted batch) unless a later         *)
(* notification of its path replaced it while it was pending.              *)
Superseded(n) ==
  \E m \in DOMAIN notes : m > n /\ notes[m].fate = "stored" /\ notes[m].prev = n
OnItsWay(n) ==
  \/ n \in Ids(recent_events)
  \/ c_event.id = n
  \/ n \in Ids(pending_changes)
  \/ \E b \in SubmittedBatches : n \in Ids(flushed[b].changes)
C2_NoRecordLost ==
  \A n \in DOMAIN notes :
    notes[n].fate = "stored" => OnItsWay(n) \/ Superseded(n)

(* C3: batches reach each subscriber in flush order and one at a time: a   *)
(* subscriber is called with a batch only after its calls with all the     *)
(* batches flushed earlier have ended.                                     *)
C3_DeliveryInFlushOrder ==
  \A w \in Workers :
    worker[w].calling =>
      \A b \in SubmittedBatches :
        b < worker[w].batch =>
          b \in Range(delivered[change_callbacks[worker[w].cb]])

(* history of the debouncer *)
TrackedPaths == {notes[n].e.file_path : n \in DOMAIN notes} \ {""}
NotesOf(p) == {n \in DOMAIN notes : notes[n].e.file_path = p}
\* the records handed to the Batcher so far
SettledIds ==
  (Ids(pending_changes) \cup UNION {Ids(flushed[b].changes) : b \in Batches}
     \cup {c_event.id}) \ {0}
SettledOf(p) == SettledIds \cap NotesOf(p)
SettledRecords ==
  Range(pending_changes) \cup UNION {Range(flushed[b].changes) : b \in Batches}
    \cup ({c_event} \ {NoEvent})
Kind(n) == notes[n].e.event_type
Hash(n) == notes[n].e.file_hash
Stamp(n) == notes[n].e.timestamp
First(N) == CHOOSE n \in N : \A m \in N : n <= m
\* the notifications of n's path that arrive within the settle window n opens
Burst(n) ==
  {m \in NotesOf(notes[n].e.file_path) :
     m >= n /\ Stamp(m) - Stamp(n) <= debounce_interval}

(* C4: the settlement thread's scan-and-remove and a handler's            *)
(* read-modify-write of recent_events never interleave: the map keeps its  *)
(* size while the scan iterates it, and the entry a handler has tested for *)
(* is still there when the handler reads it.                               *)
C4_PendingStateExclusive ==
  /\ ~(cpc \in {"scan", "pop"} /\ hpc \in {"read", "store"})
  /\ cpc = "scan" => Len(recent_events) = c_used
  /\ hpc = "read" => h_event.file_path \in Keys(recent_events)

\* all notifications of p so far are Modified, carry one fingerprint and
\* arrived within one settle window
SameContentBurst(p) ==
  /\ NotesOf(p) # {}
  /\ \A n \in NotesOf(p) : Kind(n) = "modified"
  /\ \A m, n \in NotesOf(p) :
       Hash(m) = Hash(n) /\ Stamp(m) - Stamp(n) <= debounce_interval

(* C5 as stated: N identical Modified notifications of one path within one *)
(* settle window settle no record at all.                                  *)
C5_NothingSettles ==
  \A p \in TrackedPaths : SameContentBurst(p) => SettledOf(p) = {}

(* C5 as amended: of N identical Modified notifications of one path within *)
(* one settle window, on a path with no pending record, the first is kept  *)
(* and is the only record that settles; the N-1 others are suppressed.     *)
C5_OnlyFirstSettles ==
  \A p \in TrackedPaths :
    SameContentBurst(p) =>
      /\ notes[First(NotesOf(p))].fate = "stored"
      /\ SettledOf(p) \subseteq {First(NotesOf(p))}
      /\ \A n \in NotesOf(p) \ {First(NotesOf(p))} :
           \/ notes[n].fate = "suppressed"
           \/ notes[n].fate = "inflight" /\ hpc = "read" /\ h_event.id = n

C5_Witness ==
  \E p \in TrackedPaths :
    /\ SameContentBurst(p)
    /\ Cardinality(NotesOf(p)) >= 2
    /\ SettledOf(p) = {First(NotesOf(p))}
    /\ hpc = "idle"

(* C7: a path observed as Created and then Deleted within one settle       *)
(* window settles as one record, of kind Deleted: the Created record is    *)
(* replaced and never settles.                                             *)
CreatedThenDeleted(i, j) ==
  /\ i < j
  /\ notes[i].e.file_path = notes[j].e.file_path
  /\ notes[i].e.file_path # ""
  /\ Kind(i) = "created" /\ Kind(j) = "deleted"
  /\ Stamp(j) - Stamp(i) <= debounce_interval
  /\ \A k \in NotesOf(notes[i].e.file_path) : ~(i < k /\ k < j)

C7_CreatedDeletedSettlesDeleted ==
  \A i, j \in DOMAIN notes :
    CreatedThenDeleted(i, j) =>
      /\ i \notin SettledIds
      /\ notes[j].prev = i
      /\ \A r \in SettledRecords :
           r.file_path = notes[j].e.file_path /\ r.id >= i =>
             r.id >= j /\ (r.id = j => r.event_type = "deleted")

(* C8: the kind of a settled record is the kind of the last notification   *)
(* of its path within the settle window, counting the notifications that   *)
(* were recorded and not those dropped under the suppression rule.         *)
Last(N) == CHOOSE n \in N : \A m \in N : m <= n
Recorded(s) == {n \in Burst(s) : notes[n].fate = "stored"}
C8_LastNotificationKind ==
  \A s \in SettledIds : Kind(s) = Kind(Last(Recorded(s)))

(* C6: when a path with no pending record receives a Modified notification *)
(* and then more Modified notifications with the same fingerprint within   *)
(* the settle window, the repeats are suppressed and the first record, of  *)
(* kind Modified with that fingerprint, is the one record that settles;    *)
(* with a Created and a Modified for two other paths in the same window,   *)
(* exactly three records reach the Batcher, one per path.                  *)
Repeats(i) ==
  {m \in Burst(i) \ {i} :
     \A k \in NotesOf(notes[i].e.file_path) :
       (i < k /\ k <= m) => Kind(k) = "modified" /\ Hash(k) = Hash(i)}
FirstOfRepeated(i) ==
  /\ Kind(i) = "modified" /\ notes[i].fate = "stored" /\ notes[i].prev = 0
  /\ Repeats(i) # {}
Replaced(i) ==
  \E m \in NotesOf(notes[i].e.file_path) : m > i /\ notes[m].fate = "stored"
AllSettled == recent_events = <<>> /\ hpc = "idle" /\ Len(notes) = ScenarioEvents
\* two Modified of one path with one fingerprint, a Created and a Modified
\* of two other paths, all four within one settle window
ScenarioObserved ==
  /\ Len(notes) = 4
  /\ \A m, n \in DOMAIN notes : Stamp(m) - Stamp(n) <= debounce_interval
  /\ \E a, b, c \in TrackedPaths :
       /\ Cardinality({a, b, c}) = 3
       /\ Cardinality(NotesOf(a)) = 2 /\ SameContentBurst(a)
       /\ \E n \in NotesOf(b) : Kind(n) = "created"
       /\ \E n \in NotesOf(c) : Kind(n) = "modified"

C6_IdenticalModificationsCollapse ==
  /\ \A i \in DOMAIN notes :
       FirstOfRepeated(i) =>
         /\ \A m \in Repeats(i) :
              /\ m \notin SettledIds
              /\ \/ notes[m].fate = "suppressed"
                 \/ notes[m].fate = "inflight" /\ hpc = "read" /\ h_event.id = m
         /\ \A r \in SettledRecords :
              r.id = i => r.event_type = "modified" /\ r.file_hash = Hash(i)
         /\ (notes[i].e.file_path \notin Keys(recent_events) /\ ~Replaced(i)) =>
              i \in SettledIds
  /\ (ScenarioObserved /\ AllSettled) =>
       /\ Cardinality(SettledIds) = 3
       /\ \A p \in TrackedPaths : Cardinality(SettledOf(p)) = 1
       /\ \A p \in TrackedPaths :
            Cardinality(NotesOf(p)) = 2 => SettledOf(p) = {First(NotesOf(p))}

C6_Witness ==
  /\ ScenarioObserved
  /\ AllSettled
  /\ Cardinality(SettledIds) = 3
  /\ \E i \in SettledIds : FirstOfRepeated(i)

(* the batch a worker is handing to the subscribers *)
Delivering(w) == worker[w].batch # 0
Accepted(w) == flushed[worker[w].batch].changes
LastAccepted(changes, p) ==
  changes[CHOOSE k \in DOMAIN changes :
            /\ changes[k].file_path = p
            /\ \A j \in DOMAIN changes : changes[j].file_path = p => j <= k]

(* C9: in every batch delivered to the subscribers each path appears at    *)
(* most once, every item is the record the Batcher accepted last for its   *)
(* path while the batch accumulated, and every accepted path is present.   *)
C9_DedupByPathLatestWins ==
  \A w \in Workers :
    Delivering(w) =>
      LET items == worker[w].items
      IN /\ \A i, j \in DOMAIN items :
              items[i].file_path = items[j].file_path => i = j
         /\ \A i \in DOMAIN items :
              /\ items[i].file_path \in Keys(Accepted(w))
              /\ items[i] = LastAccepted(Accepted(w), items[i].file_path)
         /\ Keys(Accepted(w)) \subseteq Keys(items)

C9_Witness ==
  \E w \in Workers :
    /\ Delivering(w) /\ worker[w].calling
    /\ \E j, k \in DOMAIN Accepted(w) :
         j < k /\ Accepted(w)[j].file_path = Accepted(w)[k].file_path

(* C10: the item list of every batch delivered to the subscribers is       *)
(* sorted non-decreasing by observation timestamp.                         *)
C10_BatchSortedByTimestamp ==
  \A w \in Workers :
    Delivering(w) =>
      \A i, j \in DOMAIN worker[w].items :
        i < j => worker[w].items[i].timestamp <= worker[w].items[j].timestamp

C10_Witness ==
  \E w \in Workers :
    /\ Delivering(w) /\ worker[w].calling
    /\ \E j, k \in DOMAIN Accepted(w) :
         j < k /\ Accepted(w)[j].timestamp > Accepted(w)[k].timestamp

(* C11: no batch is formed, queued or handed to a subscriber with an empty *)
(* item list, and a flush attempt on an empty buffer (the manual, timer or *)
(* shutdown trigger; an accept never sees an empty buffer) leaves the      *)
(* buffer, the last-flush time, the counters and the delivery queue as     *)
(* they are.                                                               *)
NoEmptyBatch ==
  /\ \A b \in Batches : flushed[b].changes # <<>>
  /\ \A i \in DOMAIN queue : queue[i].changes # <<>>
  /\ \A w \in Workers : Delivering(w) => worker[w].items # <<>>
EmptyFlushAttempt ==
  /\ pending_changes = <<>>
  /\ \/ calls'.force = calls.force + 1
     \/ tpc = "sleep" /\ tpc' # "sleep"
     \/ mpc = "flush" /\ mpc' # "flush"
C11_NeverEmptyWhenDelivered ==
  /\ []NoEmptyBatch
  /\ [][EmptyFlushAttempt =>
          UNCHANGED <<pending_changes, last_batch_time, stats, queue, flushed,
                      worker, delivered>>]_vars

C11_Witness ==
  /\ calls.force = 1
  /\ calls.stop = 1 /\ stop_result = "returned" /\ stop_snap = <<>>
  /\ flushed = <<>>

(* C12: an accept that brings the buffer to the count threshold or beyond  *)
(* flushes the whole buffer, the accepted record included, as one batch    *)
(* within that accept; between accepts the buffer holds fewer records than *)
(* the threshold.                                                          *)
AcceptReachesThreshold ==
  /\ cpc = "accept" /\ cpc' # "accept"
  /\ Len(pending_changes) + 1 >= BatchSizeThreshold
C12_CountTrigger ==
  /\ [](Len(pending_changes) < BatchSizeThreshold)
  /\ [][AcceptReachesThreshold =>
          /\ pending_changes' = <<>>
          /\ Len(flushed') = Len(flushed) + 1
          /\ flushed'[Len(flushed')].changes = Append(pending_changes, c_event)]_vars

C12_Witness ==
  /\ \E b \in Batches : Len(flushed[b].changes) = BatchSizeThreshold
  /\ now < batch_interval
  /\ Len(pending_changes) = 1

(* C13: a batch smaller than the count threshold that is flushed by the    *)
(* time trigger (in an accept or by the timer thread, not by               *)
(* force_process_changes or stop_monitoring) is flushed only when the      *)
(* buffer is non-empty and at least batch_interval has elapsed since the   *)
(* previous flush.                                                         *)
TimeTriggeredFlush ==
  /\ Len(flushed') = Len(flushed) + 1
  /\ Len(flushed'[Len(flushed')].changes) < BatchSizeThreshold
  /\ calls' = calls
  /\ mpc # "flush"
C13_TimeTrigger ==
  [][TimeTriggeredFlush =>
       /\ flushed'[Len(flushed')].changes # <<>>
       /\ now - last_batch_time >= batch_interval]_vars

(* C14: force_process_changes takes every record of the buffer as one      *)
(* batch, whatever the count and the time since the last flush, hands it   *)
(* to the delivery executor while that accepts work, and leaves the buffer *)
(* empty; on an empty buffer it changes nothing.                           *)
ForceCalled == calls'.force = calls.force + 1
C14_ManualTrigger ==
  [][ForceCalled =>
       /\ pending_changes' = <<>>
       /\ pending_changes = <<>> => UNCHANGED batcherVars
       /\ pending_changes # <<>> =>
            /\ Len(flushed') = Len(flushed) + 1
            /\ flushed'[Len(flushed')].changes = pending_changes
            /\ ~executor_shutdown =>
                 queue' = Append(queue, [batch |-> Len(flushed'),
                                         changes |-> pending_changes])]_vars

\* a batch flushed by force_process_changes below both thresholds
C14_Witness ==
  /\ calls.force = 1 /\ calls.stop = 0
  /\ \E b \in Batches :
       /\ flushed[b].submitted
       /\ Len(flushed[b].changes) < BatchSizeThreshold
       /\ now < batch_interval
       /\ pending_changes = <<>>

(* C15: a call of start_monitoring on a monitor that is already running    *)
(* returns without raising, and starts neither a second observer nor       *)
(* another cleanup or timer thread.                                        *)
StartCalledWhileRunning ==
  /\ calls'.start = calls.start + 1
  /\ observer = "alive"
C15_StartIdempotent ==
  [][StartCalledWhileRunning =>
       /\ start_result' = "returned"
       /\ UNCHANGED <<observer, timerVars, cleanupVars>>]_vars

(* C16: once stop_monitoring has returned, the cleanup thread and the      *)
(* timer thread take no further step: no record is settled into the buffer *)
(* and no batch is flushed.                                                *)
C16_StopDrains ==
  [][stop_result = "returned" /\ stop_result' = "returned" =>
       UNCHANGED <<pending_changes, flushed>>]_vars

\* the lifecycle state of the engine as the caller of start_monitoring and
\* stop_monitoring sees it (Starting is inside the atomic StartMonitoring)
Lifecycle ==
  IF observer \in {"new", "new_stopped"} THEN "Stopped"
  ELSE IF mpc # "idle" THEN "Stopping"
  ELSE IF calls.stop > 0 THEN "Stopped"
  ELSE "Running"

LifecycleMoves ==
  {<<"Stopped", "Running">>, <<"Running", "Stopping">>,
   <<"Stopping", "Stopped">>}

\* a notification enters one of the handlers in this step
Handed ==
  /\ hpc = "idle"
  /\ Len(notes') = Len(notes) + 1 \/ hpc' # "idle"

(* C17: the lifecycle only moves Stopped -> (Starting) -> Running ->       *)
(* Stopping -> Stopped, and a notification handed to a handler while the   *)
(* engine is Stopping or Stopped leaves recent_events unchanged and adds   *)
(* one to the ignored_events counter.                                      *)
C17_LifecycleGating ==
  /\ [][Lifecycle' # Lifecycle => <<Lifecycle, Lifecycle'>> \in LifecycleMoves]_vars
  /\ [][Handed /\ Lifecycle \in {"Stopping", "Stopped"} =>
          /\ recent_events' = recent_events
          /\ stats'.ignored_events = stats.ignored_events + 1]_vars

(* history of the fan-out *)
\* how many calls of subscriber s with batch b have ended
Invocations(s, b) ==
  Cardinality({k \in DOMAIN delivered[s] : delivered[s][k] = b})
\* batch b waits in the executor's queue or is in the hands of a worker
InExecutor(b) ==
  \/ \E k \in DOMAIN queue : queue[k].batch = b
  \/ \E w \in Workers : worker[w].batch = b
\* batch b has reached the subscribers in registration order so far
InRegistrationOrder(b) ==
  \A i, j \in DOMAIN change_callbacks :
    i < j /\ Invocations(change_callbacks[j], b) > 0 =>
      Invocations(change_callbacks[i], b) > 0

(* C18: every flushed batch is handed to each registered subscriber        *)
(* exactly once, the subscribers being called in registration order: no    *)
(* subscriber is called twice with a batch, a subscriber is called only    *)
(* after the ones registered before it, and a flushed batch the executor   *)
(* no longer holds has been handed to all of them.                         *)
C18_SubscriberFanOut ==
  \A b \in Batches :
    /\ \A i \in DOMAIN change_callbacks :
         Invocations(change_callbacks[i], b) <= 1
    /\ InRegistrationOrder(b)
    /\ ~InExecutor(b) => DeliveredToAll(b)

\* some call of a subscriber ends with an exception in this step
SubscriberRaises == raised' # raised
\* the batches of which some call has raised
RaisedBatches == {c[2] : c \in raised}
\* the threads of the engine and its executor are where they were
EngineUntouched ==
  UNCHANGED <<observer, hpc, cpc, tpc, mpc, executor_shutdown, queue,
              pending_changes, recent_events, flushed, change_callbacks>>

(* C19: an exception raised by a subscriber is isolated: the worker goes   *)
(* on to the subscribers registered after it with the same batch and no    *)
(* thread of the engine is affected, so the batch still reaches every      *)
(* subscriber, and so does every batch the executor accepts after a raise, *)
(* the subscriber that raised included.                                    *)
C19_SubscriberFailureIsolation ==
  /\ [](\A b \in SubmittedBatches :
          raised # {} /\ ~InExecutor(b) => DeliveredToAll(b))
  /\ [][SubscriberRaises =>
          /\ EngineUntouched
          /\ \A w \in Workers :
               worker[w].calling /\ worker'[w] # worker[w] =>
                 IF worker[w].cb < Len(change_callbacks)
                 THEN /\ worker'[w].batch = worker[w].batch
                      /\ worker'[w].items = worker[w].items
                      /\ worker'[w].cb = worker[w].cb + 1
                 ELSE worker'[w] = IdleWorker]_vars

\* the first subscriber raised on a batch, the second was still called with
\* it, and a later batch reached both
C19_Witness ==
  \E b \in RaisedBatches, b2 \in SubmittedBatches :
    /\ <<change_callbacks[1], b>> \in raised
    /\ Len(change_callbacks) = FanoutSubscribers
    /\ DeliveredToAll(b)
    /\ b2 > b
    /\ DeliveredToAll(b2)

\* some worker is inside a subscriber callback that has not returned
CallbackBlocked == \E w \in Workers : worker[w].calling

Counters == <<stats.total_events, stats.ignored_events, stats.processed_batches>>
GetStatsCalled == calls'.stats = calls.stats + 1

(* C21: the three counters are 0 until monitoring has started, no step     *)
(* makes any of them smaller, and a call of get_stats at any moment        *)
(* returns a snapshot and changes nothing of the engine.                   *)
C21_StatsLifecycle ==
  /\ [](observer \in {"new", "new_stopped"} => Counters = <<0, 0, 0>>)
  /\ [][/\ stats'.total_events >= stats.total_events
        /\ stats'.ignored_events >= stats.ignored_events
        /\ stats'.processed_batches >= stats.processed_batches]_vars
  /\ [][GetStatsCalled =>
          /\ stats_result'.status = "returned"
          /\ UNCHANGED <<now, observer, handlerVars, cleanupVars, timerVars,
                         batcherVars, executorVars, change_callbacks,
                         batch_interval, mpc>>]_vars

\* get_stats was called while the observer was alive, after a flush
C21_Witness ==
  /\ stats_result.status = "returned"
  /\ stats_result.processed_batches > 0
  /\ stats_result.total_events > 0
  /\ stats_result.uptime_seconds = now
  /\ observer = "alive"

\* the notifications a handler dropped because should_ignore_file was true
IgnoredByPolicy == {n \in DOMAIN notes : notes[n].fate = "ignored"}

(* C22: the ignored_events counter equals the number of notifications the  *)
(* handlers dropped because should_ignore_file returned true.              *)
C22_IgnoredEventsCounted ==
  stats.ignored_events = Cardinality(IgnoredByPolicy)

\* the observer thread has ended although stop_monitoring was never called
WatchSourceDead == observer = "finished" /\ calls.stop = 0

(* C23: when the observer thread has died while the engine was running,    *)
(* the engine is no longer Running and the failure has been reported: by   *)
(* start_monitoring to its caller, or by get_stats in its result.          *)
C23_WatchSourceFailureSurfaced ==
  /\ [](WatchSourceDead => Lifecycle \in {"Stopping", "Stopped"})
  /\ [][WatchSourceDead /\ GetStatsCalled =>
          start_result = "raised" \/ stats_result'.status = "failed"]_vars

(* C24: no call of stop_monitoring raises, whether the engine was never    *)
(* started or was stopped before.                                          *)
C24_StopMisuseBenign == stop_result # "raised"

\* the notifications for which a handler called should_ignore_file
Classified == {n \in DOMAIN notes : notes[n].fate # "directory"}
\* a handler returns in this step because should_ignore_file was true
RejectedByFilter ==
  /\ Len(notes') = Len(notes) + 1
  /\ notes'[Len(notes')].fate = "ignored"

Unread == {n \in DOMAIN notes : notes[n].fate = "stored" /\ Hash(n) = ""}

(* C26: a record whose file content could not be read at construction has  *)
(* the empty string as hash and 0 as size, and the observer goes on        *)
(* handling notifications.                                                 *)
C26_FingerprintFailureGraceful ==
  \A n \in Unread : notes[n].e.file_size = 0 /\ observer = "alive"

\* a subscriber acts on the list it was called with: a worker stays inside
\* the same call while the step changes something
InsideCallback ==
  \E w \in Workers :
    worker[w].calling /\ worker'[w].calling /\ worker'[w] # worker[w]

(* C27: what a subscriber does to the list it receives changes neither     *)
(* recent_events nor pending_changes, and the items of a batch stay the    *)
(* same from the first subscriber of a flush to the last.                  *)
C27_SubscribersReceiveCopies ==
  /\ [][InsideCallback => UNCHANGED <<recent_events, pending_changes>>]_vars
  /\ [][\A w \in Workers :
          worker[w].batch # 0 /\ worker'[w].batch = worker[w].batch =>
            worker'[w].items = worker[w].items]_vars

\* the notifications that on_modified drops in this step as no-ops
SuppressedNow ==
  {n \in DOMAIN notes :
     notes[n].fate = "inflight" /\ notes'[n].fate = "suppressed"}

(* C28: when on_modified drops a modification because its hash equals the  *)
(* hash of the pending record of the path, recent_events is left as it     *)
(* was: the pending record keeps its kind, hash, size and timestamp.       *)
C28_SuppressionKeepsPendingRecord ==
  [][\A n \in SuppressedNow :
       /\ notes[n].path \in Keys(recent_events)
       /\ Hash(n) = Lookup(recent_events, notes[n].path).file_hash
       /\ recent_events' = recent_events]_vars

\* a modification that arrived later than the pending record of its path
\* was dropped and that record is still pending
C28_Witness ==
  \E n \in DOMAIN notes :
    /\ notes[n].fate = "suppressed"
    /\ notes[n].prev \in Ids(recent_events)
    /\ Stamp(n) > Lookup(recent_events, notes[n].path).timestamp

KindTransitions == {"created", "deleted", "moved"}
\* a handler takes a notification in this step; its note is the last one
NoteTaken == Len(notes') = Len(notes) + 1
LastNote == notes'[Len(notes')]

(* C29: a created, deleted or moved notification that is not ignored       *)
(* replaces the pending record of its path by a new record of that kind    *)
(* stamped with the present instant, whether or not its hash equals the    *)
(* hash of the pending record.                                             *)
C29_KindTransitionsReplace ==
  [][NoteTaken /\ LastNote.e.event_type \in KindTransitions =>
       /\ LastNote.fate = "stored"
       /\ LastNote.e.timestamp = now
       /\ LastNote.path \in Keys(recent_events')
       /\ Lookup(recent_events', LastNote.path) = LastNote.e
       /\ \A q \in Keys(recent_events) \ {LastNote.path} :
            Lookup(recent_events', q) = Lookup(recent_events, q)]_vars

\* a created, deleted or moved notification replaced a pending record that
\* has the same hash
C29_Witness ==
  \E n \in DOMAIN notes :
    /\ Kind(n) \in KindTransitions
    /\ notes[n].fate = "stored"
    /\ notes[n].prev # 0
    /\ Hash(notes[n].prev) = Hash(n)
    /\ Kind(notes[n].prev) # Kind(n)
    /\ n \in Ids(recent_events)

\* the cleanup thread hands the record it popped to _process_file_change
Emitted == cpc = "accept" /\ cpc' # "accept"

(* C30: a record is popped from recent_events and handed to the Batcher    *)
(* only when its age, the present instant minus its timestamp, exceeds     *)
(* debounce_interval.                                                      *)
C30_SettlementRespectsWindow ==
  [][Emitted => now - c_event.timestamp > debounce_interval]_vars

\* record n has been handed to _process_file_change
Settled(n) == n \in SettledIds \ {c_event.id}
\* record n is counted once over the buffer and the flushed batches
SettledOnce(n) ==
  Cardinality({k \in DOMAIN pending_changes : pending_changes[k].id = n})
  + Cardinality({<<b, k>> \in Batches \X (1..SettleEvents) :
                   k \in DOMAIN flushed[b].changes
                   /\ flushed[b].changes[k].id = n}) = 1

(* C31: every record stored in recent_events that no later notification    *)
(* of its path replaces is eventually popped and handed to                 *)
(* _process_file_change, exactly once, when every thread is scheduled      *)
(* fairly.                                                                 *)
C31_SettlementLiveness ==
  \A n \in 1..SettleEvents :
    (n \in DOMAIN notes /\ n \in Ids(recent_events))
      ~> (Superseded(n) \/ (Settled(n) /\ SettledOnce(n)))

\* the paths of the notifications that passed the filter so far
NotifiedPaths ==
  {notes[n].path : n \in {m \in DOMAIN notes :
                            notes[m].fate \notin {"ignored", "directory"}}}

(* C32: recent_events holds at most one record per path and never more     *)
(* records than distinct non-ignored paths were notified, and two settled  *)
(* records of one path have timestamps more than debounce_interval apart.  *)
C32_OnePendingRecordPerPath ==
  /\ \A i, j \in DOMAIN recent_events :
       recent_events[i].file_path = recent_events[j].file_path => i = j
  /\ Len(recent_events) <= Cardinality(NotifiedPaths)
  /\ \A n, m \in SettledIds :
       n < m /\ notes[n].path = notes[m].path =>
         Stamp(m) - Stamp(n) > debounce_interval

\* record n is in a batch whose delivery to every subscriber has ended
DeliveredRecord(n) ==
  \E b \in SubmittedBatches :
    n \in Ids(flushed[b].changes) /\ DeliveredToAll(b)

(* C33: while the observer is alive, a record that sits in pending_changes *)
(* is eventually flushed and delivered to the subscribers, whether or not  *)
(* another record is ever accepted: the timer thread flushes the buffer    *)
(* every batch_interval.                                                   *)
C33_PeriodicFlush ==
  \A n \in 1..SettleEvents :
    (n \in Ids(pending_changes) /\ observer = "alive") ~> DeliveredRecord(n)

\* the only record ever accepted was left in the buffer by the accept and
\* delivered after the timer's flush at the end of the first interval
C33_Witness ==
  /\ Len(notes) = 1
  /\ notes[1].fate = "stored"
  /\ Len(flushed) = 1
  /\ last_batch_time = SettleInterval
  /\ DeliveredRecord(1)

(* C34: a handler that is given a directory notification returns at once:  *)
(* recent_events, pending_changes, the counters and everything else of the *)
(* engine stay as they were; and a handler that builds the record of a     *)
(* path that no longer exists ends without an error, the observer thread   *)
(* staying alive.                                                          *)
C34_DirectoryNotificationsDiscarded ==
  /\ [][NoteTaken /\ LastNote.fate = "directory" =>
          UNCHANGED <<now, observer, hpc, h_event, recent_events,
                      cleanupVars, timerVars, batcherVars, executorVars,
                      callerVars, change_callbacks, batch_interval>>]_vars
  /\ [][NoteTaken /\ LastNote.e.file_hash = "" /\ LastNote.e.file_size = 0 =>
          observer' = "alive"]_vars

\* a directory notification arrived while a record was pending, and the
\* record of a path that no longer exists was stored
C34_Witness ==
  \E n, m \in DOMAIN notes :
    /\ notes[n].fate = "directory"
    /\ notes[m].fate = "stored"
    /\ m < n
    /\ Hash(m) = ""
    /\ m \in Ids(recent_events)
    /\ observer = "alive"

\* the directory segments of a path: the pieces between separators, the
\* file name excluded
DirectorySegments(s) ==
  {SubSeq(s, i, j) : <<i, j>> \in
     {<<i, j>> \in (1..Len(s)) \X (1..Len(s)) :
        /\ i <= j
        /\ j < Len(s) /\ s[j + 1] = "/"
        /\ i = 1 \/ s[i - 1] = "/"
        /\ \A k \in i..j : s[k] # "/"}}

\* the four conditions of the classifier rule
IgnoredByRule(p) ==
  LET file_path == Chars(p)
      file_name == Basename(file_path)
  IN \/ \E d \in exclude_directories : Chars(d) \in DirectorySegments(file_path)
     \/ /\ file_extensions # {}
        /\ Suffix(file_path) \notin {Chars(x) : x \in file_extensions}
     \/ \E g \in ignore_patterns :
          Fnmatch(file_name, Chars(g)) \/ Fnmatch(file_path, Chars(g))
     \/ \E g \in temp_patterns : Fnmatch(file_name, Chars(g))

(* C35: a file notification is ignored exactly when its path lies under a  *)
(* directory segment equal to an excluded name, or its extension is not in *)
(* the non-empty allow-list, or its basename or full path matches an       *)
(* ignore glob, or its basename matches a transient pattern.               *)
C35_ClassifierRule ==
  \A n \in DOMAIN notes :
    notes[n].fate # "directory" =>
      (notes[n].fate = "ignored" <=> IgnoredByRule(notes[n].path))

\* the inputs of the flushed batches, in the order of the flushes, followed
\* by the buffer
RECURSIVE FlushedInputs(_)
FlushedInputs(b) ==
  IF b = 0 THEN <<>> ELSE FlushedInputs(b - 1) \o flushed[b].changes
AcceptedRecords == FlushedInputs(Len(flushed)) \o pending_changes
Accepting == cpc = "accept" /\ cpc' # "accept"

(* C36: the records accepted by _process_file_change are, in the order of  *)
(* their acceptance, the inputs of the flushed batches followed by the     *)
(* buffer: an accept adds its record at the end, no other step changes the *)
(* sequence, and no record occurs in it twice; total_events is its length, *)
(* which is the buffer length plus the sizes of the flushed inputs, and    *)
(* processed_batches is the number of flushes, none of which is empty.     *)
C36_RecordConservation ==
  /\ [](/\ stats.total_events = Len(AcceptedRecords)
        /\ stats.processed_batches = Len(flushed)
        /\ \A b \in Batches : flushed[b].changes # <<>>
        /\ \A i, j \in DOMAIN AcceptedRecords :
             AcceptedRecords[i].id = AcceptedRecords[j].id => i = j)
  /\ [][IF Accepting
        THEN AcceptedRecords' = Append(AcceptedRecords, c_event)
        ELSE AcceptedRecords' = AcceptedRecords]_vars

\* one record was flushed, by a forced flush, and the next is in the buffer
C36_Witness ==
  /\ Len(flushed) = 1
  /\ Len(pending_changes) = 1
  /\ stats.total_events = 2
  /\ stats.processed_batches = 1

\* a step of on_moved in SpecMove: it records kind 'moved', or it is given
\* the destination that only moves have there
MovedTaken ==
  /\ NoteTaken
  /\ LastNote.e.event_type = "moved" \/ LastNote.path = "n.log"
SamePendingRecord(q) ==
  /\ q \in Keys(recent_events) <=> q \in Keys(recent_events')
  /\ q \in Keys(recent_events) =>
       Lookup(recent_events', q) = Lookup(recent_events, q)

(* C37: a moved notification of a file whose destination is not ignored    *)
(* stores a new record of kind 'moved' for the destination and leaves the  *)
(* pending record of every other path, the source among them, as it was;   *)
(* when the destination is ignored the step changes nothing of the engine. *)
C37_MoveRecordsDestinationOnly ==
  [][MovedTaken =>
       /\ \A q \in (Keys(recent_events) \cup Keys(recent_events')) \ {LastNote.path} :
            SamePendingRecord(q)
       /\ ~should_ignore_file(LastNote.path) =>
            /\ LastNote.fate = "stored"
            /\ LastNote.e.event_type = "moved"
            /\ Lookup(recent_events', LastNote.path) = LastNote.e
       /\ should_ignore_file(LastNote.path) =>
            /\ LastNote.fate = "ignored"
            /\ UNCHANGED <<now, observer, hpc, h_event, recent_events,
                           cleanupVars, timerVars, batcherVars, executorVars,
                           callerVars, change_callbacks, batch_interval>>]_vars

\* a.py is tracked; a move to b.py was recorded and a move to n.log was
\* ignored, and the record of a.py is still the one its creation stored
C37_Witness ==
  /\ Len(notes) = 3
  /\ notes[1].fate = "stored" /\ notes[1].path = "a.py" /\ Kind(1) = "created"
  /\ notes[2].fate = "stored" /\ notes[2].path = "b.py" /\ Kind(2) = "moved"
  /\ notes[3].fate = "ignored" /\ notes[3].path = "n.log"
  /\ Ids(recent_events) = {1, 2}

\* the handler ends with its notification suppressed
Suppressing ==
  \E n \in DOMAIN notes :
    /\ n \in DOMAIN notes'
    /\ notes[n].fate # "suppressed"
    /\ notes'[n].fate = "suppressed"
SuppressedRecord ==
  notes'[CHOOSE n \in DOMAIN notes' :
           (n \in DOMAIN notes => notes[n].fate # "suppressed")
             /\ notes'[n].fate = "suppressed"].e
\* on_modified is handed a path that has no pending record
ModifiedOfUntracked ==
  /\ NoteTaken
  /\ LastNote.e.event_type = "modified"
  /\ LastNote.path \notin Keys(recent_events)

(* C38: a Modified notification is suppressed only while its path has a    *)
(* pending record with the same fingerprint, and a Modified notification   *)
(* for a path without a pending record is stored as a new pending record,  *)
(* whatever record of that path has settled before.                        *)
C38_SuppressionAgainstPendingOnly ==
  /\ [][Suppressing \/ (NoteTaken /\ LastNote.fate = "suppressed") =>
          /\ SuppressedRecord.file_path \in Keys(recent_events)
          /\ Lookup(recent_events, SuppressedRecord.file_path).file_hash
               = SuppressedRecord.file_hash
          /\ UNCHANGED recent_events]_vars
  /\ [][ModifiedOfUntracked =>
          /\ LastNote.fate = "stored"
          /\ LastNote.prev = 0
          /\ Lookup(recent_events', LastNote.path) = LastNote.e]_vars

\* the first record of a.py has settled and was removed; the next Modified
\* with the same fingerprint is pending as a new record, and a third with
\* that fingerprint was suppressed against it
C38_Witness ==
  /\ Len(notes) = 3
  /\ 1 \in SettledIds /\ 1 \notin Ids(recent_events)
  /\ notes[2].fate = "stored" /\ notes[2].prev = 0 /\ Hash(2) = Hash(1)
  /\ Kind(2) = "modified"
  /\ 2 \in Ids(recent_events)
  /\ notes[3].fate = "suppressed" /\ Hash(3) = Hash(2)

\* j is the notification that replaces i in the history of their path, and
\* it arrives before the settle window of i has passed
ReplacedWithinWindow(i, j) ==
  /\ i < j
  /\ notes[i].fate = "stored" /\ notes[j].fate = "stored"
  /\ notes[i].path = notes[j].path
  /\ \A k \in DOMAIN notes :
       i < k /\ k < j /\ notes[k].path = notes[i].path => notes[k].fate # "stored"
  /\ Stamp(j) - Stamp(i) < debounce_interval

(* C39: a path is not settled while its changes continue: a record whose   *)
(* path is notified again, and not suppressed, before the settle window of *)
(* the record has passed is never handed to the Batcher.                   *)
C39_ChangingPathStaysPending ==
  \A i, j \in DOMAIN notes : ReplacedWithinWindow(i, j) => i \notin SettledIds

(* history of the manager *)
\* worker w enters _on_file_changes in this step
Adding(w) == ~worker[w].calling /\ worker'[w].calling
CommitLogged == Len(manager'.commits) = Len(manager.commits) + 1
LastCommit == manager'.commits[Len(manager'.commits)]
NotDeleted(changes) ==
  {r.file_path : r \in {x \in Range(changes) : x.event_type # "deleted"}}

(* C40: _on_file_changes adds to the manager's pending set the paths of    *)
(* the delivered records that are not deleted and no other path; the set   *)
(* shrinks only in a step of a successful commit, which empties it, and a  *)
(* commit that fails or raises leaves it as it was; the commit of stop()   *)
(* is made before stop_monitoring is called, so every batch delivered once *)
(* stop_monitoring has been called is added after that commit.             *)
C40_ConsumerPendingSet ==
  /\ [][\A w \in Workers :
          Adding(w) =>
            manager'.pending_changes =
              manager.pending_changes \cup NotDeleted(worker[w].items)]_vars
  /\ [][(manager'.pending_changes # manager.pending_changes
           /\ \A w \in Workers : ~Adding(w)) =>
          /\ CommitLogged
          /\ LastCommit.ok
          /\ manager'.pending_changes = {}]_vars
  /\ [][CommitLogged /\ ~LastCommit.ok =>
          manager'.pending_changes = manager.pending_changes]_vars
  /\ [][CommitLogged /\ LastCommit.by = "stop" =>
          calls.stop = 0 /\ mpc = "idle"]_vars
  /\ [][\A w \in Workers :
          Adding(w) /\ calls.stop > 0 => manager.pc = "stopping"]_vars

\* a.py was delivered and pending when stop() made its commit, which
\* succeeded; b.py, delivered by the flush of stop_monitoring, is pending
\* after the manager has stopped
C40_Witness ==
  /\ stop_result = "returned"
  /\ \E i \in DOMAIN manager.commits :
       manager.commits[i] = [by |-> "stop", ok |-> TRUE]
  /\ Len(flushed) = 2
  /\ \A b \in Batches : b \in SubmittedBatches /\ DeliveredToAll(b)
  /\ NotDeleted(flushed[1].changes) = {"a.py"}
  /\ NotDeleted(flushed[2].changes) = {"b.py"}
  /\ manager.pending_changes = {"b.py"}
=============================================================================
